---- MODULE Spec2Model ----
(***************************************************************************)
(* MoveSmart KE backend: the role-based permission layer, the token        *)
(* authentication endpoints, the traffic-report endpoints and the retried  *)
(* collection tasks, as state machines over the database rows they touch.  *)
(*                                                                         *)
(* Strings the code only compares (usernames, passwords, role names) are   *)
(* TLA+ strings.  Permission strings, which the code splits and matches by *)
(* prefix and suffix, are sequences of tokens: 'incidents:manage' is       *)
(* <<"incidents", ":", "manage">> and 'admin:*' is <<"admin", ":", "*">>.  *)
(***************************************************************************)
EXTENDS Integers, Sequences, FiniteSets, TLC

VARIABLES
    users,      \* auth_user rows: sequence of records, the row id is the index
    groups,     \* auth_user_groups: groups[id] = set of group names of user id
    tokens,     \* authtoken_token: tokens[id] = key of the user's token, NoKey if none
    nextKey,    \* number of token keys generated so far (keys are fresh)
    revoked,    \* history: keys of deleted Token rows
    registered, \* history: per user, the credentials its registration asked for
    reports,    \* traffic_trafficreport rows, in creation order
    incidents,  \* incidents_incident rows, in creation order
    audit,      \* incidents_auditlog rows, in creation order
    resp,       \* the request handled last and its response
    check,      \* permission layer alone: the request/view pair and the decision
    tasks,      \* Celery task instances of the collection tasks
    live,       \* incidents_liveincidentdata rows, in insertion order
    logs,       \* incidents_datacollectionlog rows, in creation order
    flows,      \* incidents_trafficflowdata rows, in insertion order
    calls,      \* calls of the LiveDataCollector methods, finished or under way
    probe,      \* service layer alone: the last call of a service method and its result
    sweep,      \* collect_all_cities_data under way and the task result built from it
    inflight    \* requests under way, each with its position in the view

vars == <<users, groups, tokens, nextKey, revoked, registered, reports, incidents, audit,
          resp, check, tasks, live, logs, flows, calls, probe, sweep, inflight>>

\* the state of the data collector, untouched by the HTTP endpoints
collectorVars == <<live, logs, flows, calls, sweep>>

\* collect_all_cities_data not called
NoSweep ==
    [collection_type |-> "none", at |-> 0, results |-> <<>>, task |-> <<>>]

CollectorIdle ==
    live = <<>> /\ logs = <<>> /\ flows = <<>> /\ calls = <<>> /\ sweep = NoSweep

\* no service method called yet
NoProbe ==
    [fn |-> "none", tomtom_failed |-> FALSE, llm |-> "none", raised |-> FALSE,
     source |-> "none", keys |-> {}, dashboard |-> <<>>, args |-> <<>>]

-----------------------------------------------------------------------------
(* Small helpers *)

Range(s) == {s[i] : i \in 1..Len(s)}

NoKey == 0
Anonymous == 0
NoTasks == <<>>

-----------------------------------------------------------------------------
(* authentication/roles.py *)

P(cat, act) == <<cat, ":", act>>

RoleNames == {"admin", "traffic_analyst", "traffic_controller", "incident_manager", "viewer"}

ROLE_PERMISSIONS(r) ==
    CASE r = "admin" ->
           <<P("admin", "*"),
             P("incidents", "read"), P("incidents", "manage"),
             P("traffic", "read"),
             P("reports", "read"), P("reports", "generate"), P("reports", "export"),
             P("control", "read"), P("control", "write")>>
      [] r = "traffic_analyst" ->
           <<P("traffic", "read"),
             P("reports", "read"), P("reports", "generate")>>
      [] r = "traffic_controller" ->
           <<P("traffic", "read"),
             P("incidents", "read"), P("incidents", "manage"),
             P("control", "read"), P("control", "write"),
             P("reports", "read")>>
      [] r = "incident_manager" ->
           <<P("incidents", "read"), P("incidents", "manage"),
             P("reports", "read")>>
      [] r = "viewer" ->
           <<P("traffic", "read"), P("reports", "read"), P("incidents", "read")>>
      \* ROLE_PERMISSIONS.get(r, []) for a group that is no key of the table
      [] OTHER -> <<>>

-----------------------------------------------------------------------------
(* authentication/permissions.py *)

\* ':' in needed
HasColon(needed) == \E i \in 1..Len(needed) : needed[i] = ":"

\* needed.split(':', 1)[0] + ':'
CategoryPrefix(needed) ==
    LET i == CHOOSE j \in 1..Len(needed) :
                 needed[j] = ":" /\ \A k \in 1..(j - 1) : needed[k] # ":"
    IN  SubSeq(needed, 1, i)

\* p.startswith(prefix)
StartsWith(p, prefix) ==
    Len(p) >= Len(prefix) /\ SubSeq(p, 1, Len(prefix)) = prefix

\* p.endswith('*')
EndsWithStar(p) == Len(p) >= 1 /\ p[Len(p)] = "*"

\* user_perms: the union of ROLE_PERMISSIONS.get(r, []) over the user's groups
UserPerms(roles) == UNION {Range(ROLE_PERMISSIONS(r)) : r \in roles}

\* the iteration without `and p.endswith('*')`: any held permission of the
\* category would grant
NeededGrantedNoStarCheck(needed, user_perms) ==
    \/ needed \in user_perms
    \/ /\ HasColon(needed)
       /\ \E p \in user_perms : StartsWith(p, CategoryPrefix(needed))

\* one iteration of `for needed in required`
NeededGranted(needed, user_perms) ==
    \/ needed \in user_perms
    \/ /\ HasColon(needed)
       /\ \E p \in user_perms :
              StartsWith(p, CategoryPrefix(needed)) /\ EndsWithStar(p)

\* a loop that gives up after the first element of `required`
AnyNeededGrantedFirstOnly(required, user_perms) ==
    required # <<>> /\ NeededGranted(Head(required), user_perms)

\* the loop over `required`, returning at the first permission that is granted
RECURSIVE AnyNeededGranted(_, _)
AnyNeededGranted(required, user_perms) ==
    IF required = <<>> THEN FALSE
    ELSE IF NeededGranted(Head(required), user_perms) THEN TRUE
    ELSE AnyNeededGranted(Tail(required), user_perms)

\* has_permission without the admin-group test of lines 29-31
has_permission_admin_after_required(authenticated, roles, required) ==
    IF ~authenticated THEN FALSE
    ELSE IF required = <<>> THEN TRUE
    ELSE IF AnyNeededGranted(required, UserPerms(roles)) THEN TRUE
    ELSE FALSE

\* RolePermission.has_permission, given request.user (is_authenticated and its
\* groups) and required = view.REQUIRED_PERMISSIONS.get(view.action, [])
has_permission(authenticated, roles, required) ==
    IF ~authenticated THEN FALSE
    ELSE IF "admin" \in roles THEN TRUE
    ELSE IF required = <<>> THEN TRUE
    ELSE AnyNeededGranted(required, UserPerms(roles))

-----------------------------------------------------------------------------
(* The views guarded by RolePermission and their REQUIRED_PERMISSIONS *)

\* incidents/views.py: IncidentViewSet.REQUIRED_PERMISSIONS.get(action, [])
IncidentRequired(action) ==
    CASE action \in {"list", "retrieve", "active", "statistics"} ->
           <<P("incidents", "read")>>
      [] action \in {"create", "update", "partial_update", "destroy", "resolve"} ->
           <<P("incidents", "manage")>>
      [] action = "live_incidents" -> <<P("traffic", "read")>>
      [] OTHER -> <<>>

\* an AdminRoleViewSet whose REQUIRED_PERMISSIONS names no action
AdminRoleRequiredNothing(action) == <<>>

\* authentication/admin_views.py: AdminRoleViewSet.REQUIRED_PERMISSIONS.get(action, [])
AdminRoleRequired(action) ==
    CASE action \in {"assign", "list_roles"} -> <<P("admin", "*")>>
      [] OTHER -> <<>>

-----------------------------------------------------------------------------
(* Bounds of the database tables *)

MaxUsers == 2
MaxKeys == 3

-----------------------------------------------------------------------------
(* Requests and responses *)

\* an e-mail address 'local@domain'; <<>> is a missing or empty field
E(local, domain) == <<local, "@", domain>>

NoResp ==
    [op |-> "none", status |-> 0, key |-> NoKey, requester |-> Anonymous,
     username |-> "", email |-> <<>>, password |-> "", new_password |-> "",
     token |-> NoKey, user |-> Anonymous, report_type |-> "", count |-> 0,
     results |-> <<>>,
     \* TRUE when the view raised and no handler of the view caught it: the
     \* exception leaves the view and the framework answers 500 itself
     uncaught |-> FALSE]

UserIds == 1..Len(users)

\* rest_framework TokenAuthentication: the active user owning the Token row with
\* this key; a request with no key or with a key of no row is not authenticated
AuthUser(key) ==
    IF key # NoKey /\ \E u \in UserIds : tokens[u] = key /\ users[u].is_active
    THEN CHOOSE u \in UserIds : tokens[u] = key
    ELSE Anonymous

\* keys a client may send: none, or any key handed out so far
KeyInputs == 0..nextKey

-----------------------------------------------------------------------------
(* django.contrib.auth as called by authentication/views.py *)

\* normalize_username: NFKC; "U+FF41lice" stands for the username whose first
\* letter is FULLWIDTH LATIN SMALL LETTER A, whose NFKC form is 'alice'
normalize_username(username) ==
    IF username = "U+FF41lice" THEN "alice" ELSE username

\* str.lower() on a domain part
Lower(domain) == IF domain = "X.KE" THEN "x.ke" ELSE domain

\* normalize_email: the domain part is lowercased
normalize_email(email) ==
    IF Len(email) = 3 THEN E(email[1], Lower(email[3])) ELSE email

\* make_password / check_password / set_unusable_password
make_password(raw) == <<"hash", raw>>
UnusablePassword == <<"!">>
check_password(u, raw) == users[u].password = make_password(raw)

\* django.contrib.auth.authenticate with ModelBackend: the user whose username
\* is exactly the given one, if the password checks and the user is active
authenticate(username, password) ==
    IF \E u \in UserIds : /\ users[u].username = username
                          /\ check_password(u, password)
                          /\ users[u].is_active
    THEN CHOOSE u \in UserIds : users[u].username = username
    ELSE Anonymous

UsernameExists(username) == \E u \in UserIds : users[u].username = username
EmailExists(email) == \E u \in UserIds : users[u].email = email

\* Token.objects.create: a row with a newly generated key
NewKey == nextKey + 1

-----------------------------------------------------------------------------
(* authentication/views.py *)

UsernameInputs == {"", "alice", "U+FF41lice"}
EmailInputs == {<<>>, E("alice", "x.ke"), E("alice", "X.KE"), E("bob", "x.ke")}
PasswordInputs == {"", "pw1", "pw2"}

\* the duplicate checks with the e-mail check left out
RegisterDuplicateUsernameOnly(username, email) == UsernameExists(username)

\* User.objects.filter(username=...).exists() and filter(email=...).exists()
RegisterDuplicate(username, email) ==
    UsernameExists(username) \/ EmailExists(email)

register_user(username, email, password) ==
    LET req == [NoResp EXCEPT !.op = "register", !.username = username,
                              !.email = email, !.password = password]
        rejected == [req EXCEPT !.status = 400]
    IN
    IF username = "" \/ email = <<>> \/ password = ""
    THEN /\ resp' = rejected
         /\ UNCHANGED <<users, groups, tokens, nextKey, revoked, registered>>
    ELSE IF RegisterDuplicate(username, email)
    THEN /\ resp' = rejected
         /\ UNCHANGED <<users, groups, tokens, nextKey, revoked, registered>>
    ELSE IF UsernameExists(normalize_username(username))
    THEN \* create_user raises IntegrityError on the unique username column
         /\ resp' = [req EXCEPT !.status = 500]
         /\ UNCHANGED <<users, groups, tokens, nextKey, revoked, registered>>
    ELSE /\ Len(users) < MaxUsers
         /\ nextKey < MaxKeys
         /\ users' = Append(users, [username |-> normalize_username(username),
                                    email |-> normalize_email(email),
                                    password |-> make_password(password),
                                    is_active |-> TRUE])
         /\ groups' = Append(groups, {"viewer"})
         /\ tokens' = Append(tokens, NewKey)
         /\ nextKey' = NewKey
         /\ registered' = Append(registered, [username |-> username,
                                              password |-> password,
                                              intact |-> TRUE])
         /\ resp' = [req EXCEPT !.status = 201, !.token = NewKey,
                                !.user = Len(users) + 1]
         /\ UNCHANGED revoked

login_user(username, password) ==
    LET req == [NoResp EXCEPT !.op = "login", !.username = username,
                              !.password = password]
        user == authenticate(username, password)
    IN
    IF username = "" \/ password = ""
    THEN /\ resp' = [req EXCEPT !.status = 400]
         /\ UNCHANGED <<users, groups, tokens, nextKey, revoked, registered>>
    ELSE IF user = Anonymous
    THEN /\ resp' = [req EXCEPT !.status = 401]
         /\ UNCHANGED <<users, groups, tokens, nextKey, revoked, registered>>
    ELSE IF tokens[user] # NoKey
    THEN \* Token.objects.get_or_create finds the row
         /\ resp' = [req EXCEPT !.status = 200, !.token = tokens[user], !.user = user]
         /\ UNCHANGED <<users, groups, tokens, nextKey, revoked, registered>>
    ELSE /\ nextKey < MaxKeys
         /\ tokens' = [tokens EXCEPT ![user] = NewKey]
         /\ nextKey' = NewKey
         /\ resp' = [req EXCEPT !.status = 200, !.token = NewKey, !.user = user]
         /\ UNCHANGED <<users, groups, revoked, registered>>

\* a logout that leaves the token row in place
LogoutKeepsToken(u) == tokens

\* the effect of request.user.auth_token.delete() in logout_user
LogoutTokens(u) == [tokens EXCEPT ![u] = NoKey]

logout_user(key) ==
    LET req == [NoResp EXCEPT !.op = "logout", !.key = key,
                              !.requester = AuthUser(key)]
        u == AuthUser(key)
    IN
    IF u = Anonymous
    THEN /\ resp' = [req EXCEPT !.status = 401]
         /\ UNCHANGED <<users, groups, tokens, nextKey, revoked, registered>>
    ELSE /\ tokens' = LogoutTokens(u)
         /\ revoked' = revoked \cup {tokens[u]}
         /\ registered' = [registered EXCEPT ![u].intact = FALSE]
         /\ resp' = [req EXCEPT !.status = 200]
         /\ UNCHANGED <<users, groups, nextKey>>

\* the response of user_profile to a request carrying this key
ProfileResponse(key) ==
    IF AuthUser(key) = Anonymous
    THEN [status |-> 401, user |-> Anonymous, roles |-> {}]
    ELSE [status |-> 200, user |-> AuthUser(key), roles |-> groups[AuthUser(key)]]

user_profile(key) ==
    /\ resp' = [NoResp EXCEPT !.op = "profile", !.key = key,
                              !.requester = AuthUser(key),
                              !.status = ProfileResponse(key).status,
                              !.user = ProfileResponse(key).user]
    /\ UNCHANGED <<users, groups, tokens, nextKey, revoked, registered>>

\* a password change that keeps the old token row
ChangePasswordKeepsToken(u, new_password) ==
    /\ users' = [users EXCEPT ![u].password = make_password(new_password)]
    /\ UNCHANGED <<tokens, nextKey, revoked>>

\* the row changes of a change_password request that passed the checks:
\* set_password and save, Token.objects.filter(user=user).delete(),
\* Token.objects.create(user=user)
ChangePasswordRows(u, new_password) ==
    /\ users' = [users EXCEPT ![u].password = make_password(new_password)]
    /\ revoked' = revoked \cup {tokens[u]}
    /\ tokens' = [tokens EXCEPT ![u] = NewKey]
    /\ nextKey' = NewKey

change_password(key, current_password, new_password) ==
    LET req == [NoResp EXCEPT !.op = "change_password", !.key = key,
                              !.requester = AuthUser(key),
                              !.password = current_password,
                              !.new_password = new_password]
        u == AuthUser(key)
    IN
    IF u = Anonymous
    THEN /\ resp' = [req EXCEPT !.status = 401]
         /\ UNCHANGED <<users, groups, tokens, nextKey, revoked, registered>>
    ELSE IF current_password = "" \/ new_password = ""
    THEN /\ resp' = [req EXCEPT !.status = 400]
         /\ UNCHANGED <<users, groups, tokens, nextKey, revoked, registered>>
    ELSE IF ~check_password(u, current_password)
    THEN /\ resp' = [req EXCEPT !.status = 400]
         /\ UNCHANGED <<users, groups, tokens, nextKey, revoked, registered>>
    ELSE /\ nextKey < MaxKeys
         /\ ChangePasswordRows(u, new_password)
         /\ registered' = [registered EXCEPT ![u].intact = FALSE]
         /\ resp' = [req EXCEPT !.status = 200, !.token = tokens'[u]]
         /\ UNCHANGED groups

-----------------------------------------------------------------------------
(* authentication/google_auth.py and google_login *)

\* what a client may post as the Google ID token: nothing, a token Google
\* rejects, a token whose verification cannot reach Google, or a valid token
\* carrying these claims
GoogleTokenInputs ==
    [kind : {"missing", "invalid", "unreachable"}, email : {<<>>},
     email_verified : {FALSE}]
        \cup [kind : {"valid"}, email : {E("alice", "x.ke")},
              email_verified : BOOLEAN]

\* f"{base_username}{counter}"
Numbered(base_username, counter) == base_username \o ToString(counter)

\* the loop `while User.objects.filter(username=username).exists()`
RECURSIVE UniqueUsername(_, _, _)
UniqueUsername(username, base_username, counter) ==
    IF UsernameExists(username)
    THEN UniqueUsername(Numbered(base_username, counter), base_username, counter + 1)
    ELSE username

\* User.objects.filter(email=email).first()
FirstUserByEmail(email) ==
    IF EmailExists(email)
    THEN CHOOSE u \in UserIds :
             users[u].email = email /\ \A v \in UserIds : users[v].email = email => u <= v
    ELSE Anonymous

\* a default-role step that adds 'viewer' whatever groups the user has
EnsureViewerAlways(user_groups) == user_groups \cup {"viewer"}

\* `if not user.groups.exists(): user.groups.add(viewer_group)`
EnsureViewer(user_groups) ==
    IF user_groups = {} THEN {"viewer"} ELSE user_groups

google_login(google_token) ==
    LET req == [NoResp EXCEPT !.op = "google_login", !.email = google_token.email]
        email == google_token.email
        found == FirstUserByEmail(email)
        username == UniqueUsername(email[1], email[1], 1)
    IN
    IF google_token.kind = "missing"
    THEN /\ resp' = [req EXCEPT !.status = 400]
         /\ UNCHANGED <<users, groups, tokens, nextKey, revoked, registered>>
    ELSE IF google_token.kind = "unreachable"
    THEN \* verify_token catches ValueError only; google_login answers 500
         /\ resp' = [req EXCEPT !.status = 500]
         /\ UNCHANGED <<users, groups, tokens, nextKey, revoked, registered>>
    ELSE IF google_token.kind = "invalid" \/ ~google_token.email_verified
    THEN \* authenticate_google_user returns (None, None)
         /\ resp' = [req EXCEPT !.status = 401]
         /\ UNCHANGED <<users, groups, tokens, nextKey, revoked, registered>>
    ELSE IF found # Anonymous
    THEN /\ tokens[found] = NoKey => nextKey < MaxKeys
         /\ tokens' = IF tokens[found] = NoKey
                      THEN [tokens EXCEPT ![found] = NewKey] ELSE tokens
         /\ nextKey' = IF tokens[found] = NoKey THEN NewKey ELSE nextKey
         /\ groups' = [groups EXCEPT ![found] = EnsureViewer(groups[found])]
         /\ resp' = [req EXCEPT !.status = 200, !.token = tokens'[found],
                                !.user = found]
         /\ UNCHANGED <<users, revoked, registered>>
    ELSE /\ Len(users) < MaxUsers
         /\ nextKey < MaxKeys
         /\ users' = Append(users, [username |-> normalize_username(username),
                                    email |-> normalize_email(email),
                                    password |-> UnusablePassword,
                                    is_active |-> TRUE])
         /\ groups' = Append(groups, {"viewer"})
         /\ tokens' = Append(tokens, NewKey)
         /\ nextKey' = NewKey
         /\ registered' = Append(registered, [username |-> "", password |-> "",
                                              intact |-> FALSE])
         /\ resp' = [req EXCEPT !.status = 200, !.token = NewKey,
                                !.user = Len(users) + 1]
         /\ UNCHANGED revoked

-----------------------------------------------------------------------------
(* The authentication endpoints over an initially empty database *)

AuthInit ==
    /\ users = <<>> /\ groups = <<>> /\ tokens = <<>> /\ nextKey = 0
    /\ revoked = {} /\ registered = <<>>
    /\ reports = <<>> /\ incidents = <<>> /\ audit = <<>>
    /\ resp = NoResp
    /\ check = [authenticated |-> FALSE, roles |-> {}, required |-> <<>>,
                decision |-> "none"]
    /\ tasks = NoTasks
    /\ CollectorIdle
    /\ probe = NoProbe
    /\ inflight = <<>>

\* the rows and variables the authentication endpoints never touch
AuthFrame == UNCHANGED <<collectorVars, probe, inflight, reports, incidents, audit, check, tasks>>

Register ==
    \E username \in UsernameInputs, email \in EmailInputs, password \in PasswordInputs :
        register_user(username, email, password) /\ AuthFrame

Login ==
    \E username \in UsernameInputs, password \in PasswordInputs :
        login_user(username, password) /\ AuthFrame

Logout == \E key \in KeyInputs : logout_user(key) /\ AuthFrame

Profile == \E key \in KeyInputs : user_profile(key) /\ AuthFrame

ChangePassword ==
    \E key \in KeyInputs, current_password \in PasswordInputs,
       new_password \in PasswordInputs :
        change_password(key, current_password, new_password) /\ AuthFrame

GoogleLogin ==
    \E google_token \in GoogleTokenInputs : google_login(google_token) /\ AuthFrame

AuthNext ==
    \/ Register
    \/ Login
    \/ Logout
    \/ Profile
    \/ ChangePassword
    \/ GoogleLogin

Spec == AuthInit /\ [][AuthNext]_vars

-----------------------------------------------------------------------------
(* Properties of the authentication endpoints *)

\* C6: after a successful register_user for a username and password, and with no
\* logout or password change of that user since, login_user with the same
\* username and password answers 200 with a token, and user_profile called with
\* that token answers 200 for exactly that user.
C6_RegisterThenLogin ==
    \A u \in UserIds :
        ( /\ resp.op = "login"
          /\ registered[u].intact
          /\ resp.username = registered[u].username
          /\ resp.password = registered[u].password )
        => /\ resp.status = 200
           /\ resp.token # NoKey
           /\ ProfileResponse(resp.token).status = 200
           /\ ProfileResponse(resp.token).user = u

C8_LogoutInvalidates ==
    /\ []( /\ (resp.op = "logout" /\ resp.status = 200)
               => /\ tokens[resp.requester] = NoKey
                  /\ AuthUser(resp.key) = Anonymous
           /\ \A key \in revoked : AuthUser(key) = Anonymous )
    /\ [][ \A u \in UserIds :
               (tokens[u] = NoKey /\ tokens'[u] # NoKey)
               => /\ resp'.op \in {"login", "google_login"}
                  /\ resp'.status = 200
                  /\ resp'.user = u ]_vars

\* a logout that answered 200 for a user who had logged out and in before
C8_Witness ==
    /\ resp.op = "logout" /\ resp.status = 200
    /\ tokens[resp.requester] = NoKey
    /\ Cardinality(revoked) >= 2

\* C9: change_password with the correct current password answers 200, stores
\* the new password, deletes the old token and returns a new one, the only token
\* of the user; with a wrong current password or a missing field it answers 400
\* and changes neither password nor token.
C9_ChangePasswordRotates ==
    [][ (resp'.op = "change_password" /\ resp'.requester # Anonymous) =>
            LET u == resp'.requester
                accepted == /\ resp'.password # "" /\ resp'.new_password # ""
                            /\ check_password(u, resp'.password)
            IN  /\ accepted =>
                       /\ resp'.status = 200
                       /\ users'[u].password = make_password(resp'.new_password)
                       /\ tokens'[u] = resp'.token
                       /\ tokens'[u] \notin (0..nextKey)
                       /\ \A v \in UserIds : tokens'[v] # tokens[u]
                /\ ~accepted =>
                       /\ resp'.status = 400
                       /\ users' = users /\ tokens' = tokens ]_vars

\* an accepted change_password: the key sent is deleted, the key returned is
\* the user's token
C9_Witness ==
    /\ resp.op = "change_password" /\ resp.status = 200
    /\ resp.key \in revoked
    /\ tokens[resp.requester] = resp.token
    /\ resp.new_password # resp.password

-----------------------------------------------------------------------------
(* Views guarded by RolePermission *)

MaxIncidents == 1
MaxAudit == 2

\* the groups of request.user; AnonymousUser has none
RequesterRoles(u) == IF u = Anonymous THEN {} ELSE groups[u]

\* the status DRF answers when has_permission is False: 401 to a request that
\* is not authenticated, 403 to an authenticated one
DeniedStatus(u) == IF u = Anonymous THEN 401 ELSE 403

\* IncidentViewSet.create (ModelViewSet): permission check, then the serializer
\* validates the posted data and saves the row
incident_create(key, valid) ==
    LET u == AuthUser(key)
        req == [NoResp EXCEPT !.op = "incident_create", !.key = key, !.requester = u]
    IN
    IF ~has_permission(u # Anonymous, RequesterRoles(u), IncidentRequired("create"))
    THEN /\ resp' = [req EXCEPT !.status = DeniedStatus(u)]
         /\ UNCHANGED incidents
    ELSE IF ~valid
    THEN /\ resp' = [req EXCEPT !.status = 400]
         /\ UNCHANGED incidents
    ELSE /\ Len(incidents) < MaxIncidents
         /\ incidents' = Append(incidents, [status |-> "active"])
         /\ resp' = [req EXCEPT !.status = 201]

\* AdminRoleViewSet.list_roles
list_roles(key) ==
    LET u == AuthUser(key)
        req == [NoResp EXCEPT !.op = "list_roles", !.key = key, !.requester = u]
    IN
    resp' = [req EXCEPT !.status =
                IF has_permission(u # Anonymous, RequesterRoles(u),
                                  AdminRoleRequired("list_roles"))
                THEN 200 ELSE DeniedStatus(u)]

\* what a client may post as 'roles': a list of names, or a value that is no list
RolesInputs ==
    [is_list : {TRUE},
     items : {<<>>, <<"root">>, <<"viewer", "root">>, <<"traffic_analyst">>,
              <<"incident_manager">>, <<"viewer", "viewer">>}]
        \cup [is_list : {FALSE}, items : {<<"admin">>}]

\* what a client may post as 'user_id' (0: absent) and 'username' ("": absent)
TargetInputs ==
    {[user_id |-> 0, username |-> ""], [user_id |-> 1, username |-> ""],
     [user_id |-> 2, username |-> "admin"], [user_id |-> 9, username |-> ""],
     [user_id |-> 0, username |-> "user1"], [user_id |-> 0, username |-> "nobody"]}

\* User.objects.get(id=user_id) / User.objects.get(username=username);
\* Anonymous stands for User.DoesNotExist
LocateUser(target) ==
    IF target.user_id # 0
    THEN IF target.user_id \in UserIds THEN target.user_id ELSE Anonymous
    ELSE IF UsernameExists(target.username)
         THEN CHOOSE u \in UserIds : users[u].username = target.username
         ELSE Anonymous

\* an assignment that only adds the requested roles, without groups.clear()
AssignedGroupsAdded(user, roles) == groups[user] \cup Range(roles)

\* user.groups.clear() followed by user.groups.add(group) for each requested role
AssignedGroups(user, roles) == Range(roles)

\* AdminRoleViewSet.assign
assign(key, target, roles) ==
    LET u == AuthUser(key)
        req == [NoResp EXCEPT !.op = "assign", !.key = key, !.requester = u,
                              !.username = target.username]
        user == LocateUser(target)
    IN
    IF ~has_permission(u # Anonymous, RequesterRoles(u), AdminRoleRequired("assign"))
    THEN /\ resp' = [req EXCEPT !.status = DeniedStatus(u)]
         /\ UNCHANGED <<groups, audit>>
    ELSE IF roles.items = <<>> \/ ~roles.is_list
    THEN /\ resp' = [req EXCEPT !.status = 400]
         /\ UNCHANGED <<groups, audit>>
    ELSE IF \E i \in 1..Len(roles.items) : roles.items[i] \notin RoleNames
    THEN /\ resp' = [req EXCEPT !.status = 400]
         /\ UNCHANGED <<groups, audit>>
    ELSE IF target.user_id = 0 /\ target.username = ""
    THEN /\ resp' = [req EXCEPT !.status = 400]
         /\ UNCHANGED <<groups, audit>>
    ELSE IF user = Anonymous
    THEN /\ resp' = [req EXCEPT !.status = 404]
         /\ UNCHANGED <<groups, audit>>
    ELSE /\ Len(audit) < MaxAudit
         /\ groups' = [groups EXCEPT ![user] = AssignedGroups(user, roles.items)]
         /\ audit' = Append(audit, [user |-> u, action |-> "role_change",
                                    target_user_id |-> user,
                                    from |-> groups[user], to |-> roles.items])
         /\ resp' = [req EXCEPT !.status = 200, !.user = user]

-----------------------------------------------------------------------------
(* The guarded views over the seeded database *)

\* the database after `seed_roles --with-demo-users` (user 'admin' in group
\* 'admin', no token) and create_demo_users of demo_rbac.py (users without
\* groups, each with a token); one demo user is kept
RbacInit ==
    /\ users = << [username |-> "user1", email |-> E("user1", "example.com"),
                   password |-> make_password("testpass123"), is_active |-> TRUE],
                  [username |-> "admin", email |-> E("admin", "example.com"),
                   password |-> make_password("admin123"), is_active |-> TRUE] >>
    /\ groups = << {}, {"admin"} >>
    /\ tokens = << 1, NoKey >>
    /\ nextKey = 1
    /\ revoked = {}
    /\ registered = << [username |-> "", password |-> "", intact |-> FALSE],
                       [username |-> "", password |-> "", intact |-> FALSE] >>
    /\ reports = <<>> /\ incidents = <<>> /\ audit = <<>>
    /\ resp = NoResp
    /\ check = [authenticated |-> FALSE, roles |-> {}, required |-> <<>>,
                decision |-> "none"]
    /\ tasks = NoTasks
    /\ CollectorIdle
    /\ probe = NoProbe
    /\ inflight = <<>>

SeededLogin ==
    \E username \in {"user1", "admin"}, password \in {"testpass123", "admin123"} :
        /\ login_user(username, password)
        /\ UNCHANGED <<collectorVars, probe, inflight, reports, incidents, audit, check, tasks>>

IncidentCreate ==
    \E key \in KeyInputs, valid \in BOOLEAN :
        /\ incident_create(key, valid)
        /\ UNCHANGED <<collectorVars, probe, inflight, users, groups, tokens, nextKey, revoked, registered,
                       reports, audit, check, tasks>>

ListRoles ==
    \E key \in KeyInputs :
        /\ list_roles(key)
        /\ UNCHANGED <<collectorVars, probe, inflight, users, groups, tokens, nextKey, revoked, registered,
                       reports, incidents, audit, check, tasks>>

Assign ==
    \E key \in KeyInputs, target \in TargetInputs, roles \in RolesInputs :
        /\ assign(key, target, roles)
        /\ UNCHANGED <<collectorVars, probe, inflight, users, tokens, nextKey, revoked, registered,
                       reports, incidents, check, tasks>>

RbacNext ==
    \/ SeededLogin
    \/ IncidentCreate
    \/ ListRoles
    \/ Assign

SpecRbac == RbacInit /\ [][RbacNext]_vars

\* C1: on IncidentViewSet, an authenticated user outside group 'admin' whose
\* roles grant neither 'incidents:manage' nor a permission 'incidents:...*' gets
\* 403 on create, and the request creates no Incident row.
C1_CreateDenied ==
    [][ ( /\ resp'.op = "incident_create"
          /\ resp'.requester # Anonymous
          /\ "admin" \notin groups[resp'.requester]
          /\ \A r \in groups[resp'.requester] :
                 \A p \in Range(ROLE_PERMISSIONS(r)) :
                     /\ p # P("incidents", "manage")
                     /\ ~(p[1] = "incidents" /\ p[2] = ":" /\ p[Len(p)] = "*") )
        => /\ resp'.status = 403
           /\ incidents' = incidents ]_vars

\* a viewer's create request answered 403 while a row created by an allowed
\* request exists
C1_Witness ==
    /\ resp.op = "incident_create" /\ resp.status = 403
    /\ groups[resp.requester] = {"viewer"}
    /\ Len(incidents) = 1

-----------------------------------------------------------------------------
(* traffic/views.py: TrafficReportViewSet *)

MaxReports == 2

\* TrafficReport.user is NULL when the row is created without a user
NoUser == 0

\* the user column given to TrafficReport.objects.create by the three
\* generation endpoints: none of the calls passes user=
CreatedReportUser(requester) == NoUser

\* the row a generation endpoint creates; generated_by is history, not a column
NewReport(requester, endpoint, report_type) ==
    [user |-> CreatedReportUser(requester), generated_by |-> requester,
     endpoint |-> endpoint, report_type |-> report_type]

\* a generation request: whether the posted data passes the endpoint's checks,
\* and how the calls to the geocoder, TomTom and the analyzer end for it
GenerateInputs ==
    {[valid |-> FALSE, env |-> "ok"], [valid |-> TRUE, env |-> "no_coordinates"],
     [valid |-> TRUE, env |-> "raises"], [valid |-> TRUE, env |-> "ok"]}

\* the two users of demo_rbac.py send their token with every request
DemoKeyInputs == KeyInputs \ {NoKey}

ReportTypeInputs == {"traffic_summary", "incident_analysis"}

\* generate_report and generate_detailed_report: serializer check, geocoding,
\* traffic data and analysis, then TrafficReport.objects.create; nothing catches
\* an exception of the calls, so the framework answers 500
generate_plain(endpoint, key, valid, report_type, env) ==
    LET req == [NoResp EXCEPT !.op = endpoint, !.key = key,
                              !.requester = AuthUser(key),
                              !.report_type = report_type]
    IN
    IF ~valid
    THEN resp' = [req EXCEPT !.status = 400] /\ UNCHANGED reports
    ELSE IF env = "no_coordinates"
    THEN resp' = [req EXCEPT !.status = 400] /\ UNCHANGED reports
    ELSE IF env = "raises"
    THEN \* no try around geocoding, TomTom, the analyzer and the insert
         resp' = [req EXCEPT !.status = 500, !.uncaught = TRUE] /\ UNCHANGED reports
    ELSE /\ Len(reports) < MaxReports
         /\ reports' = Append(reports, NewReport(AuthUser(key), endpoint, report_type))
         /\ resp' = [req EXCEPT !.status = 201]

generate_report(key, valid, report_type, env) ==
    generate_plain("generate_report", key, valid, report_type, env)

generate_detailed_report(key, valid, report_type, env) ==
    generate_plain("generate_detailed_report", key, valid, report_type, env)

\* generate_comprehensive_report: location or city required, geocoding, date
\* parsing, then the data, the sections and the row inside try/except
generate_comprehensive_report(key, valid, report_type, env) ==
    LET req == [NoResp EXCEPT !.op = "generate_comprehensive_report", !.key = key,
                              !.requester = AuthUser(key),
                              !.report_type = report_type]
    IN
    IF ~valid
    THEN resp' = [req EXCEPT !.status = 400] /\ UNCHANGED reports
    ELSE IF env = "no_coordinates"
    THEN resp' = [req EXCEPT !.status = 400] /\ UNCHANGED reports
    ELSE IF env = "raises"
    THEN resp' = [req EXCEPT !.status = 500] /\ UNCHANGED reports
    ELSE /\ Len(reports) < MaxReports
         /\ reports' = Append(reports, NewReport(AuthUser(key),
                                  "generate_comprehensive_report", report_type))
         /\ resp' = [req EXCEPT !.status = 201]

\* int(request.query_params.get(...)): a value that parses to n, or one that
\* makes int() raise ValueError
Parsed(n) == [parses |-> TRUE, n |-> n]
NotAnInt == [parses |-> FALSE, n |-> 0]

\* the query parameters of a list_reports request; limit 20 and offset 0 are
\* the defaults
PageInputs ==
    {[limit |-> Parsed(20), offset |-> Parsed(0)], [limit |-> Parsed(1), offset |-> Parsed(0)],
     [limit |-> Parsed(1), offset |-> Parsed(1)], [limit |-> NotAnInt, offset |-> Parsed(0)],
     [limit |-> Parsed(20), offset |-> NotAnInt], [limit |-> Parsed(20), offset |-> Parsed(-1)],
     [limit |-> Parsed(-1), offset |-> Parsed(0)]}

ListInputs ==
    [report_type : {"", "traffic_summary"}, date_ok : {TRUE}, page : PageInputs]
        \cup {[report_type |-> "", date_ok |-> FALSE,
                page |-> [limit |-> Parsed(20), offset |-> Parsed(0)]]}

\* queryset.order_by('-created_at'): the ids of the rows matching the filter,
\* newest first
RECURSIVE Newest(_, _)
Newest(n, report_type) ==
    IF n = 0 THEN <<>>
    ELSE IF report_type = "" \/ reports[n].report_type = report_type
         THEN <<n>> \o Newest(n - 1, report_type)
         ELSE Newest(n - 1, report_type)

\* the queryset of list_reports: TrafficReport.objects.all() and the filters;
\* the requesting user is no filter
ListQueryset(requester, report_type) == Newest(Len(reports), report_type)

\* queryset[offset:offset + limit]
Slice(queryset, offset, limit) ==
    SubSeq(queryset, offset + 1,
           IF offset + limit < Len(queryset) THEN offset + limit ELSE Len(queryset))

list_reports(key, report_type, date_ok, limit, offset) ==
    LET req == [NoResp EXCEPT !.op = "list_reports", !.key = key,
                              !.requester = AuthUser(key),
                              !.report_type = report_type]
        queryset == ListQueryset(AuthUser(key), report_type)
    IN
    /\ UNCHANGED reports
    /\ IF ~limit.parses \/ ~offset.parses
       THEN \* ValueError of int(), outside any try
            resp' = [req EXCEPT !.status = 500, !.uncaught = TRUE]
       ELSE IF ~date_ok
       THEN resp' = [req EXCEPT !.status = 400]
       ELSE IF offset.n < 0 \/ offset.n + limit.n < 0
       THEN \* the queryset refuses negative indexing
            resp' = [req EXCEPT !.status = 500, !.uncaught = TRUE]
       ELSE resp' = [req EXCEPT !.status = 200,
                                !.count = Len(queryset),
                                !.results = Slice(queryset, offset.n, limit.n)]

-----------------------------------------------------------------------------
(* The report endpoints with the two users of demo_rbac.py *)

\* the database after create_demo_users of demo_rbac.py: user1 and user2, no
\* groups, one token each
ReportsInit ==
    /\ users = << [username |-> "user1", email |-> E("user1", "example.com"),
                   password |-> make_password("testpass123"), is_active |-> TRUE],
                  [username |-> "user2", email |-> E("user2", "example.com"),
                   password |-> make_password("testpass123"), is_active |-> TRUE] >>
    /\ groups = << {}, {} >>
    /\ tokens = << 1, 2 >>
    /\ nextKey = 2
    /\ revoked = {}
    /\ registered = << [username |-> "", password |-> "", intact |-> FALSE],
                       [username |-> "", password |-> "", intact |-> FALSE] >>
    /\ reports = <<>> /\ incidents = <<>> /\ audit = <<>>
    /\ resp = NoResp
    /\ check = [authenticated |-> FALSE, roles |-> {}, required |-> <<>>,
                decision |-> "none"]
    /\ tasks = NoTasks
    /\ CollectorIdle
    /\ probe = NoProbe
    /\ inflight = <<>>

ReportsFrame ==
    UNCHANGED <<collectorVars, probe, inflight, users, groups, tokens, nextKey, revoked, registered, incidents,
                audit, check, tasks>>

GenerateReport ==
    \E key \in DemoKeyInputs, data \in GenerateInputs,
       report_type \in ReportTypeInputs :
        generate_report(key, data.valid, report_type, data.env) /\ ReportsFrame

GenerateDetailedReport ==
    \E key \in DemoKeyInputs, data \in GenerateInputs,
       report_type \in ReportTypeInputs :
        generate_detailed_report(key, data.valid, report_type, data.env) /\ ReportsFrame

GenerateComprehensiveReport ==
    \E key \in DemoKeyInputs, data \in GenerateInputs,
       report_type \in ReportTypeInputs :
        generate_comprehensive_report(key, data.valid, report_type, data.env) /\ ReportsFrame

ListReports ==
    \E key \in DemoKeyInputs, query \in ListInputs :
        list_reports(key, query.report_type, query.date_ok, query.page.limit,
                     query.page.offset) /\ ReportsFrame

ReportsNext ==
    \/ GenerateReport
    \/ GenerateDetailedReport
    \/ GenerateComprehensiveReport
    \/ ListReports

SpecReports == ReportsInit /\ [][ReportsNext]_vars

\* C2: list_reports called by a user returns only reports that user generated
\* and never a report another user generated, and its count is the number of
\* that user's reports matching the filter.
C2_ListOnlyOwnReports ==
    (resp.op = "list_reports" /\ resp.status = 200 /\ resp.requester # Anonymous) =>
        /\ \A i \in Range(resp.results) : reports[i].generated_by = resp.requester
        /\ resp.count =
               Cardinality({i \in 1..Len(reports) :
                   /\ reports[i].generated_by = resp.requester
                   /\ resp.report_type \in {"", reports[i].report_type}})

\* C5: every report created through a generation endpoint has user equal to
\* the user who made the request, never NULL and never another user.
C5_ReportLinkedToRequester ==
    \A i \in 1..Len(reports) :
        reports[i].generated_by # Anonymous =>
            /\ reports[i].user # NoUser
            /\ reports[i].user = reports[i].generated_by


\* C12: no request makes an exception leave a view uncaught; every failure is
\* answered by the view with a 4xx/5xx response carrying a JSON error body.
C12_NoExceptionLeavesView ==
    resp.op \in {"list_reports", "generate_report", "generate_detailed_report",
                 "generate_comprehensive_report"}
        => ~resp.uncaught

-----------------------------------------------------------------------------
(* incidents/tasks.py: the retried collection tasks *)

MaxTasks == 2

\* @shared_task(bind=True, retry_backoff=True, max_retries=3)
max_retries == 3

\* self.retry(exc=exc, countdown=60)
countdown == 60

TaskNames == {"collect_all_cities_traffic_data", "collect_city_traffic_data"}

\* a task message as the broker first receives it
NewTask(name) ==
    [name |-> name, retries |-> 0, runs |-> 0, state |-> "queued", eta |-> 0,
     delays |-> <<>>, last |-> "none"]

\* a retry test that gives up one retry early
RetryExhaustedOffByOne(retries) == retries >= max_retries

\* Task.retry gives up when the retry to schedule would exceed max_retries
RetryExhausted(retries) == retries > max_retries

\* the countdown Task.retry schedules the retry with; retry_backoff only acts
\* on autoretry_for, which neither task declares
RetryCountdown(retries) == countdown

\* `raise self.retry(exc=exc, countdown=60)` in the except branch of the task
Retry(task) ==
    IF RetryExhausted(task.retries + 1)
    THEN [task EXCEPT !.state = "failed", !.runs = @ + 1, !.last = "raised"]
    ELSE [task EXCEPT !.state = "waiting", !.runs = @ + 1, !.last = "raised",
                      !.retries = @ + 1,
                      !.eta = RetryCountdown(task.retries),
                      !.delays = Append(@, RetryCountdown(task.retries))]

TaskFrame ==
    UNCHANGED <<collectorVars, probe, inflight, users, groups, tokens, nextKey, revoked, registered, reports,
                incidents, audit, resp, check>>

\* beat or a caller sends a task
SubmitTask ==
    \E name \in TaskNames :
        /\ Len(tasks) < MaxTasks
        /\ tasks' = Append(tasks, NewTask(name))
        /\ TaskFrame

\* a worker runs the task body; the collector raises or returns
RunTask ==
    \E i \in 1..Len(tasks), raises \in BOOLEAN :
        /\ tasks[i].state = "queued"
        /\ tasks' = [tasks EXCEPT ![i] =
                        IF raises THEN Retry(tasks[i])
                        ELSE [tasks[i] EXCEPT !.state = "succeeded", !.runs = @ + 1,
                                              !.last = "returned"]]
        /\ TaskFrame

\* the countdown of a scheduled retry elapses and the message is delivered again
CountdownElapses ==
    \E i \in 1..Len(tasks) :
        /\ tasks[i].state = "waiting"
        /\ tasks' = [tasks EXCEPT ![i] = [@ EXCEPT !.state = "queued", !.eta = 0]]
        /\ TaskFrame

TaskInit ==
    /\ tasks = NoTasks
    /\ CollectorIdle
    /\ probe = NoProbe
    /\ inflight = <<>>
    /\ users = <<>> /\ groups = <<>> /\ tokens = <<>> /\ nextKey = 0
    /\ revoked = {} /\ registered = <<>>
    /\ reports = <<>> /\ incidents = <<>> /\ audit = <<>>
    /\ resp = NoResp
    /\ check = [authenticated |-> FALSE, roles |-> {}, required |-> <<>>,
                decision |-> "none"]

TaskNext ==
    \/ SubmitTask
    \/ RunTask
    \/ CountdownElapses

SpecTask == TaskInit /\ [][TaskNext]_vars

\* C10: a task instance whose body raises is re-scheduled with the fixed
\* countdown of 60 seconds, runs at most 1 + 3 times, does not run again once a
\* run succeeded, fails for good when the run after the third retry raises, and
\* a step of one instance changes no other instance.
C10_RetriedAtMostThreeTimes ==
    /\ [](\A i \in 1..Len(tasks) :
            LET t == tasks[i] IN
            /\ t.retries <= 3 /\ t.runs <= 4
            /\ Len(t.delays) = t.retries
            /\ \A k \in 1..Len(t.delays) : t.delays[k] = 60
            /\ t.state = "waiting" => (t.eta = 60 /\ t.last = "raised")
            /\ t.state = "succeeded" => (t.runs = t.retries + 1 /\ t.last = "returned")
            /\ t.state = "failed" => (t.runs = 4 /\ t.retries = 3 /\ t.last = "raised")
            /\ (t.last = "raised" /\ t.runs <= 3) => t.state \in {"waiting", "queued"})
    /\ [][ \A i \in 1..Len(tasks) :
               /\ tasks[i].state \in {"succeeded", "failed"} => tasks'[i] = tasks[i]
               /\ tasks'[i] # tasks[i] =>
                      \A j \in 1..Len(tasks) : j # i => tasks'[j] = tasks[j] ]_vars

\* one instance failed for good after four runs while another succeeded on its
\* first retry
C10_Witness ==
    \E i, j \in 1..Len(tasks) :
        /\ tasks[i].state = "failed" /\ tasks[i].runs = 4
        /\ tasks[j].state = "succeeded" /\ tasks[j].runs = 2

-----------------------------------------------------------------------------
(* The permission layer alone: has_permission applied to a request/view pair *)

\* Group rows: the roles of the table and one group that is no key of it
GroupNames == RoleNames \cup {"auditors"}

IncidentActions ==
    {"list", "retrieve", "create", "update", "partial_update", "destroy",
     "resolve", "active", "statistics", "live_incidents", "metadata"}

AdminRoleActions == {"assign", "list_roles", "metadata"}

\* REQUIRED_PERMISSIONS entries of other views a deployment may guard with
\* RolePermission: a permission no role holds, one without a category, a
\* two-element entry and a category only 'admin:*' covers
ProbeRequired ==
    { <<P("system", "root")>>,
      << <<"superuser">> >>,
      <<P("reports", "export"), P("incidents", "manage")>>,
      <<P("admin", "users")>> }

RequiredInputs ==
    {IncidentRequired(a) : a \in IncidentActions}
        \cup {AdminRoleRequired(a) : a \in AdminRoleActions}
        \cup ProbeRequired

\* AnonymousUser has no groups
CheckInputs ==
    [authenticated : {TRUE}, roles : SUBSET GroupNames, required : RequiredInputs,
     decision : {"none"}]
        \cup [authenticated : {FALSE}, roles : {{}}, required : RequiredInputs,
              decision : {"none"}]

PermInit ==
    /\ check \in CheckInputs
    /\ users = <<>> /\ groups = <<>> /\ tokens = <<>> /\ nextKey = 0
    /\ revoked = {} /\ registered = <<>> /\ reports = <<>> /\ incidents = <<>>
    /\ audit = <<>>
    /\ resp = NoResp
    /\ tasks = NoTasks
    /\ CollectorIdle
    /\ probe = NoProbe
    /\ inflight = <<>>

PermCheck ==
    /\ check.decision = "none"
    /\ check' = [check EXCEPT !.decision =
                    IF has_permission(check.authenticated, check.roles, check.required)
                    THEN "allow" ELSE "deny"]
    /\ UNCHANGED <<collectorVars, probe, inflight, users, groups, tokens, nextKey, revoked, registered, reports,
                   incidents, audit, resp, tasks>>

PermNext == PermCheck

SpecPerm == PermInit /\ [][PermNext]_vars

\* The reference decision of the claim, as a set expression: some required
\* permission is held, or some held permission lies in its category and ends
\* with '*'
RefCategory(needed) ==
    {SubSeq(needed, 1, i) : i \in {j \in 1..Len(needed) :
         needed[j] = ":" /\ \A k \in 1..(j - 1) : needed[k] # ":"}}

RefHeld(roles) ==
    {p \in UNION {Range(ROLE_PERMISSIONS(r)) : r \in RoleNames} :
        \E r \in roles \cap RoleNames : p \in Range(ROLE_PERMISSIONS(r))}

RefGrant(roles, required) ==
    \E needed \in Range(required) :
        \/ needed \in RefHeld(roles)
        \/ \E c \in RefCategory(needed), p \in RefHeld(roles) :
               /\ Len(p) >= Len(c)
               /\ \A i \in 1..Len(c) : p[i] = c[i]
               /\ p[Len(p)] = "*"

\* C3: has_permission equals the reference decision: deny when unauthenticated;
\* else allow when nothing is required; else, for a user outside 'admin', allow
\* exactly when the reference grants one of the required permissions.
C3_ReferenceDecision ==
    check.decision # "none" =>
        /\ ~check.authenticated => check.decision = "deny"
        /\ (check.authenticated /\ check.required = <<>>) => check.decision = "allow"
        /\ (check.authenticated /\ check.required # <<>> /\ "admin" \notin check.roles) =>
               (check.decision = "allow" <=> RefGrant(check.roles, check.required))

\* a decided non-admin request whose grant comes from a role of the table while
\* the user is also in a group that is no key of ROLE_PERMISSIONS
C3_Witness ==
    /\ check.decision = "allow"
    /\ check.authenticated
    /\ check.required = <<P("reports", "export"), P("incidents", "manage")>>
    /\ check.roles = {"incident_manager", "auditors"}

\* C4: a member of group 'admin' is allowed whatever is required and whatever
\* other groups they are in; an unauthenticated request is denied.
C4_AdminShortCircuit ==
    check.decision # "none" =>
        /\ (check.authenticated /\ "admin" \in check.roles) => check.decision = "allow"
        /\ ~check.authenticated => check.decision = "deny"

\* an admin allowed for a permission that ROLE_PERMISSIONS['admin'] does not list
C4_Witness ==
    /\ check.decision = "allow"
    /\ "admin" \in check.roles /\ "viewer" \in check.roles
    /\ check.required = <<P("system", "root")>>
    /\ P("system", "root") \notin Range(ROLE_PERMISSIONS("admin"))

-----------------------------------------------------------------------------
(* incidents/services/data_collector.py: LiveDataCollector, one city at a time *)

MaxCalls == 2

\* the keys of KENYAN_CITIES in the order of the dict literal
KENYAN_CITIES == <<"nairobi", "mombasa", "kisumu", "nakuru", "eldoret">>

\* KENYAN_CITIES[city]['name']
CityName(city) ==
    CASE city = "nairobi" -> "Nairobi"
      [] city = "mombasa" -> "Mombasa"
      [] city = "kisumu" -> "Kisumu"
      [] city = "nakuru" -> "Nakuru"
      [] city = "eldoret" -> "Eldoret"

\* the city argument of a call: two cities whose boxes may share incidents, and
\* a key that is not in the table
CityInputs == {"nairobi", "nakuru", "atlantis"}

\* properties['id'] of a feed incident; NoIncidentId is a feature without id
\* or without usable coordinates, for which _process_incident_data raises
NoIncidentId == ""
IncidentIdInputs == {"TT-1", "TT-2"}

\* what tomtom_service.get_traffic_incidents gives a call: an exception, a
\* response without 'incidents' (also the {} of a failed request), or a feed
FetchInputs ==
    {[outcome |-> "raises", incidents |-> <<>>],
     [outcome |-> "empty", incidents |-> <<>>],
     [outcome |-> "incidents", incidents |-> <<>>],
     [outcome |-> "incidents", incidents |-> <<"TT-1">>],
     [outcome |-> "incidents", incidents |-> <<"TT-1", "TT-1">>],
     [outcome |-> "incidents", incidents |-> <<"TT-2", "TT-1">>],
     [outcome |-> "incidents", incidents |-> <<NoIncidentId, "TT-1">>]}

\* DataCollectionLog.objects.create(collection_type=..., city=..., bbox=...):
\* status has the default 'running', completed_at is NULL, error_message ''
NewLog(collection_type, city) ==
    [collection_type |-> collection_type, city |-> city, status |-> "running",
     completed_at |-> FALSE, error_message |-> "",
     new_records_created |-> 0, existing_records_updated |-> 0,
     errors_encountered |-> 0]

\* a log whose mark_failed does not touch the status
mark_failed_status_kept(log, error_message) ==
    [log EXCEPT !.completed_at = TRUE, !.error_message = error_message]

\* DataCollectionLog.mark_completed and mark_failed, each ending in save()
mark_completed(log) == [log EXCEPT !.status = "completed", !.completed_at = TRUE]

mark_failed(log, error_message) ==
    [log EXCEPT !.status = "failed", !.completed_at = TRUE,
                !.error_message = error_message]

\* a call of collect_incident_data or collect_traffic_flow_data as it starts
NewCall(fn, city, log, pc) ==
    [fn |-> fn, city |-> city, log |-> log, pc |-> pc, feed |-> <<>>,
     stored_at_lookup |-> FALSE, new_records |-> 0, updated_records |-> 0,
     errors |-> 0, last_created |-> "none", error |-> ""]

CallIds == 1..Len(calls)

\* LiveIncidentData rows with this tomtom_incident_id
RowsWithId(id) == {i \in 1..Len(live) : live[i].tomtom_incident_id = id}

\* an INSERT that no constraint stops
InsertAcceptedUnconstrained(id) == TRUE

\* unique=True on tomtom_incident_id: the INSERT is accepted when no row has
\* the id, and raises IntegrityError otherwise
InsertAccepted(id) == RowsWithId(id) = {}

\* the first lines of both methods: an unknown city raises ValueError before
\* the log is created; a known one gets its log row
StartCollect(fn, city) ==
    /\ Len(calls) < MaxCalls
    /\ IF city \notin Range(KENYAN_CITIES)
       THEN /\ calls' = Append(calls, [NewCall(fn, city, 0, "raised")
                                           EXCEPT !.error = "ValueError"])
            /\ UNCHANGED <<logs, live>>
       ELSE /\ logs' = Append(logs, NewLog(fn, CityName(city)))
            /\ calls' = Append(calls,
                   NewCall(fn, city, Len(logs) + 1,
                           IF fn = "incidents" THEN "fetch" ELSE "flow"))
            /\ UNCHANGED live

\* collect_incident_data: the request to TomTom and the branch on its answer
FetchIncidents(c, fetched) ==
    /\ calls[c].pc = "fetch"
    /\ IF fetched.outcome = "raises"
       THEN /\ logs' = [logs EXCEPT ![calls[c].log] = mark_failed(@, "error")]
            /\ calls' = [calls EXCEPT ![c].pc = "raised", ![c].error = "error"]
       ELSE IF fetched.outcome = "empty"
       THEN /\ logs' = [logs EXCEPT ![calls[c].log] = mark_completed(@)]
            /\ calls' = [calls EXCEPT ![c].pc = "returned"]
       ELSE /\ calls' = [calls EXCEPT ![c].pc = "lookup",
                                      ![c].feed = fetched.incidents]
            /\ UNCHANGED logs
    /\ UNCHANGED live

\* _process_incident_data raising before update_or_create: errors += 1
ProcessInvalid(c) ==
    /\ calls[c].pc = "lookup" /\ calls[c].feed # <<>>
    /\ Head(calls[c].feed) = NoIncidentId
    /\ calls' = [calls EXCEPT ![c].feed = Tail(@), ![c].errors = @ + 1]
    /\ UNCHANGED <<logs, live>>

\* update_or_create, first step: get(tomtom_incident_id=incident_id)
Lookup(c) ==
    /\ calls[c].pc = "lookup" /\ calls[c].feed # <<>>
    /\ Head(calls[c].feed) # NoIncidentId
    /\ LET stored == RowsWithId(Head(calls[c].feed)) # {}
       IN  calls' = [calls EXCEPT ![c].pc = IF stored THEN "save" ELSE "insert",
                                  ![c].stored_at_lookup = stored]
    /\ UNCHANGED <<logs, live>>

\* update_or_create after DoesNotExist: create(); on IntegrityError the row is
\* fetched again and updated like one that was found at once
Insert(c) ==
    /\ calls[c].pc = "insert"
    /\ LET id == Head(calls[c].feed)
       IN  IF InsertAccepted(id)
           THEN /\ live' = Append(live, [tomtom_incident_id |-> id,
                                         city |-> CityName(calls[c].city),
                                         saves |-> 1])
                /\ calls' = [calls EXCEPT ![c].pc = "lookup", ![c].feed = Tail(@),
                                          ![c].new_records = @ + 1,
                                          ![c].last_created = "created"]
           ELSE /\ calls' = [calls EXCEPT ![c].pc = "save"]
                /\ UNCHANGED live
    /\ UNCHANGED logs

\* update_or_create for a row that exists: set the defaults and save();
\* created is False and the caller counts the incident as updated
Save(c) ==
    /\ calls[c].pc = "save"
    /\ LET id == Head(calls[c].feed)
       IN  /\ live' = [i \in 1..Len(live) |->
                          IF i \in RowsWithId(id)
                          THEN [live[i] EXCEPT !.city = CityName(calls[c].city),
                                               !.saves = @ + 1]
                          ELSE live[i]]
           /\ calls' = [calls EXCEPT ![c].pc = "lookup", ![c].feed = Tail(@),
                                     ![c].updated_records = @ + 1,
                                     ![c].last_created = "updated"]
    /\ UNCHANGED logs

\* collect_incident_data after the loop: the counters go to the log,
\* mark_completed, and the statistics are returned
CompleteIncidents(c) ==
    /\ calls[c].pc = "lookup" /\ calls[c].feed = <<>>
    /\ logs' = [logs EXCEPT ![calls[c].log] =
                   mark_completed([@ EXCEPT
                       !.new_records_created = calls[c].new_records,
                       !.existing_records_updated = calls[c].updated_records,
                       !.errors_encountered = calls[c].errors])]
    /\ calls' = [calls EXCEPT ![c].pc = "returned"]
    /\ UNCHANGED live

\* collect_traffic_flow_data after its log is created: the sampling loop
\* catches the failure of a point, so the body returns unless something
\* outside the loop raises
FlowBody(c, raises) ==
    /\ calls[c].pc = "flow"
    /\ IF raises
       THEN /\ logs' = [logs EXCEPT ![calls[c].log] = mark_failed(@, "error")]
            /\ calls' = [calls EXCEPT ![c].pc = "raised", ![c].error = "error"]
       ELSE /\ logs' = [logs EXCEPT ![calls[c].log] = mark_completed(@)]
            /\ calls' = [calls EXCEPT ![c].pc = "returned"]
    /\ UNCHANGED live

CollectorInit ==
    /\ CollectorIdle
    /\ probe = NoProbe
    /\ inflight = <<>>
    /\ users = <<>> /\ groups = <<>> /\ tokens = <<>> /\ nextKey = 0
    /\ revoked = {} /\ registered = <<>>
    /\ reports = <<>> /\ incidents = <<>> /\ audit = <<>>
    /\ resp = NoResp
    /\ check = [authenticated |-> FALSE, roles |-> {}, required |-> <<>>,
                decision |-> "none"]
    /\ tasks = NoTasks

CollectorFrame ==
    UNCHANGED <<users, groups, tokens, nextKey, revoked, registered, reports,
                incidents, audit, resp, check, tasks, probe, sweep, inflight, flows>>

CallStarts ==
    \E fn \in {"incidents", "traffic_flow"}, city \in CityInputs :
        StartCollect(fn, city) /\ CollectorFrame

CallFetches ==
    \E c \in CallIds, fetched \in FetchInputs :
        FetchIncidents(c, fetched) /\ CollectorFrame

CallSkipsInvalid == \E c \in CallIds : ProcessInvalid(c) /\ CollectorFrame

CallLooksUp == \E c \in CallIds : Lookup(c) /\ CollectorFrame

CallInserts == \E c \in CallIds : Insert(c) /\ CollectorFrame

CallSaves == \E c \in CallIds : Save(c) /\ CollectorFrame

CallCompletes == \E c \in CallIds : CompleteIncidents(c) /\ CollectorFrame

CallRunsFlow ==
    \E c \in CallIds, raises \in BOOLEAN : FlowBody(c, raises) /\ CollectorFrame

CollectorNext ==
    \/ CallStarts
    \/ CallFetches
    \/ CallSkipsInvalid
    \/ CallLooksUp
    \/ CallInserts
    \/ CallSaves
    \/ CallCompletes
    \/ CallRunsFlow

SpecCollector == CollectorInit /\ [][CollectorNext]_vars

\* C11: no two LiveIncidentData rows share a tomtom_incident_id, and an
\* incident whose id was stored when its processing looked it up ends as an
\* update of that row (created = False, counted in updated_records) without a
\* new row, whatever other calls do in between.
C11_UniqueIncidentId ==
    /\ [](\A i, j \in 1..Len(live) :
              live[i].tomtom_incident_id = live[j].tomtom_incident_id => i = j)
    /\ [][ \A c \in CallIds :
               ( /\ calls[c].pc \in {"insert", "save"}
                 /\ calls'[c].pc = "lookup"
                 /\ RowsWithId(Head(calls[c].feed)) # {} )
               => /\ Len(live') = Len(live)
                  /\ calls'[c].last_created = "updated"
                  /\ calls'[c].updated_records = calls[c].updated_records + 1
                  /\ calls'[c].new_records = calls[c].new_records ]_vars

\* two calls for different cities were both about to insert the same incident
\* id; one inserted the row and the other ended as an update of it
C11_Witness ==
    /\ Len(calls) = 2
    /\ calls[1].city # calls[2].city
    /\ \E c, d \in CallIds :
           /\ c # d
           /\ calls[c].new_records = 1 /\ calls[c].last_created = "created"
           /\ calls[d].updated_records = 1 /\ calls[d].last_created = "updated"
           /\ ~calls[d].stored_at_lookup
    /\ Len(live) = 1 /\ live[1].saves = 2

\* C17: a call for a known city has exactly one log of its own, 'running' while
\* the call is under way, 'completed' with completed_at once it returned,
\* 'failed' with completed_at and error_message once it raised; a call for an
\* unknown city raised ValueError and has no log; a log that is 'completed' or
\* 'failed' never changes.
C17_LogLifecycle ==
    /\ []( /\ \A c \in CallIds :
                 IF calls[c].city \in Range(KENYAN_CITIES)
                 THEN /\ calls[c].log \in 1..Len(logs)
                      /\ \A d \in CallIds : calls[d].log = calls[c].log => d = c
                      /\ logs[calls[c].log].collection_type = calls[c].fn
                      /\ calls[c].pc = "returned" =>
                             /\ logs[calls[c].log].status = "completed"
                             /\ logs[calls[c].log].completed_at
                      /\ calls[c].pc = "raised" =>
                             /\ logs[calls[c].log].status = "failed"
                             /\ logs[calls[c].log].completed_at
                             /\ logs[calls[c].log].error_message # ""
                      /\ calls[c].pc \notin {"returned", "raised"} =>
                             logs[calls[c].log].status = "running"
                 ELSE /\ calls[c].pc = "raised" /\ calls[c].error = "ValueError"
                      /\ calls[c].log = 0
           /\ Len(logs) = Cardinality({c \in CallIds : calls[c].log # 0}) )
    /\ [][ /\ Len(logs') >= Len(logs)
           /\ \A l \in 1..Len(logs) :
                  /\ logs[l].status \in {"completed", "failed"} => logs'[l] = logs[l]
                  /\ logs'[l].status = "running" => logs[l].status = "running"
         ]_vars

\* one call returned, one raised after its log was created, and both logs are
\* closed
C17_Witness ==
    /\ Len(calls) = 2 /\ Len(logs) = 2
    /\ calls[1].pc = "returned" /\ logs[calls[1].log].status = "completed"
    /\ calls[2].pc = "raised" /\ logs[calls[2].log].status = "failed"
    /\ calls[1].new_records = 1

-----------------------------------------------------------------------------
(* traffic/services: TomTomService.get_city_traffic_summary and the fallbacks
   of AITrafficAnalyzer *)

\* what get_traffic_flow returned: {} after a failed request, or a body with
\* flowSegmentData {currentSpeed, freeFlowSpeed}
NoData == [present |-> FALSE, currentSpeed |-> 0, freeFlowSpeed |-> 0]
FlowData(currentSpeed, freeFlowSpeed) ==
    [present |-> TRUE, currentSpeed |-> currentSpeed, freeFlowSpeed |-> freeFlowSpeed]

FlowInputs == {NoData, FlowData(30, 60), FlowData(0, 50), FlowData(45, 0), FlowData(20, 80)}

\* what get_traffic_incidents returned: {} after a failed request, or a body
\* with 'incidents'; an incident is given by its properties.events, a list of
\* descriptions that the feed may leave empty
NoIncidents == [present |-> FALSE, incidents |-> <<>>]
Incidents(feed) == [present |-> TRUE, incidents |-> feed]

IncidentsInputs ==
    {NoIncidents, Incidents(<<>>), Incidents(<< <<"accident">> >>),
     Incidents(<< <<"closure">>, <<>> >>)}

\* round(n / d) of Python for n >= 0, d > 0: to the nearest, ties to even
Round(n, d) ==
    LET q == n \div d
        r == n % d
    IN  IF 2 * r < d THEN q
        ELSE IF 2 * r > d THEN q + 1
        ELSE IF q % 2 = 0 THEN q ELSE q + 1

\* random.randint(lo, hi), as one of its two extreme draws
RandInt(lo, hi, draw) == IF draw = "lowest" THEN lo ELSE hi

HourInputs == {3, 8, 10, 13, 18, 23}
DrawInputs == {"lowest", "highest"}

\* TomTomService._generate_ai_forecast
generate_ai_forecast(congestion_level, live_incidents) ==
    IF congestion_level > 75 \/ live_incidents > 10
    THEN "Expect major delays. Consider alternative routes or travel times."
    ELSE IF congestion_level > 50 \/ live_incidents > 5
    THEN "Heavy traffic reported. Plan for extra travel time."
    ELSE IF congestion_level > 25
    THEN "Moderate traffic conditions. Minor delays possible."
    ELSE "Traffic is flowing smoothly. Have a safe trip!"

\* the simulated congestion and travel time of the fallback branch
SimulatedFlow(current_hour, draw) ==
    IF (7 <= current_hour /\ current_hour <= 9) \/ (17 <= current_hour /\ current_hour <= 19)
    THEN <<RandInt(65, 85, draw), RandInt(35, 50, draw)>>
    ELSE IF 12 <= current_hour /\ current_hour <= 14
    THEN <<RandInt(45, 65, draw), RandInt(25, 35, draw)>>
    ELSE IF current_hour >= 22 \/ current_hour <= 6
    THEN <<RandInt(10, 25, draw), RandInt(15, 25, draw)>>
    ELSE <<RandInt(30, 50, draw), RandInt(20, 30, draw)>>

\* TomTomService.get_city_traffic_summary on the answers of its two requests
get_city_traffic_summary(flow_data, incidents_data, current_hour, draw) ==
    LET measured == flow_data.present
        congestion_level ==
            IF measured
            THEN IF flow_data.freeFlowSpeed > 0
                 THEN IF flow_data.currentSpeed >= flow_data.freeFlowSpeed THEN 0
                      ELSE Round((flow_data.freeFlowSpeed - flow_data.currentSpeed) * 100,
                                 flow_data.freeFlowSpeed)
                 ELSE 0
            ELSE SimulatedFlow(current_hour, draw)[1]
        avg_travel_time ==
            IF measured
            THEN IF flow_data.currentSpeed > 0
                 THEN Round(600, flow_data.currentSpeed)
                 ELSE 99
            ELSE SimulatedFlow(current_hour, draw)[2]
        live_incidents ==
            IF incidents_data.present
            THEN Len(incidents_data.incidents)
            ELSE RandInt(1, 8, draw)
    IN  [congestionLevel |-> congestion_level,
         avgTravelTime |-> avg_travel_time,
         liveIncidents |-> live_incidents,
         aiForecast |-> generate_ai_forecast(congestion_level, live_incidents)]

\* AITrafficAnalyzer.__init__: which API the configured keys select
ApiTypeInputs == {"openrouter", "openai", "mock"}

\* how the request to the language model ends: an exception of requests.post,
\* a status other than 200, a 200 whose body has no choices[0].message.content,
\* or a 200 with a usable text
LlmInputs == {"raises", "non200", "bad_body", "ok"}

Returned(source, keys) == [raised |-> FALSE, source |-> source, keys |-> keys]
Raised == [raised |-> TRUE, source |-> "none", keys |-> {}]

\* the keys of the dictionaries the analyzer builds
MockAnalysisKeys == {"analysis", "recommendations", "congestion_level", "avg_speed"}
ParsedAnalysisKeys == {"analysis", "recommendations"}
DetailedKeys ==
    {"analysis", "recommendations", "congestion_level", "avg_speed",
     "incident_count", "congested_areas_count", "major_routes_analyzed"}
MockSectionKeys ==
    {"traffic_overview", "incident_analysis", "peak_hours_analysis",
     "route_performance", "recommendations", "congestion_level", "avg_speed",
     "incident_count"}
ParsedSectionKeys ==
    {"traffic_overview", "incident_analysis", "recommendations",
     "congestion_level", "avg_speed", "incident_count"}

\* _generate_mock_analysis: reads flowSegmentData and len(incidents_data)
generate_mock_analysis(traffic_data, incidents_data) ==
    Returned("mock", MockAnalysisKeys)

\* analyze_traffic_data: the mock without keys, else _generate_openai_analysis
analyze_traffic_data(api_type, llm, traffic_data, incidents_data) ==
    IF api_type = "mock"
    THEN generate_mock_analysis(traffic_data, incidents_data)
    ELSE IF llm = "ok"
    THEN Returned("ai", ParsedAnalysisKeys)
    ELSE generate_mock_analysis(traffic_data, incidents_data)

\* props.get('events', [{}])[0] in _generate_detailed_mock_analysis: the first
\* element of the list the feed gave, IndexError when that list is empty
DescriptionReadable(events) == Len(events) >= 1

\* _generate_detailed_mock_analysis over the incidents of the detailed data
generate_detailed_mock_analysis(incidents_data) ==
    IF \A i \in 1..Len(incidents_data.incidents) :
           DescriptionReadable(incidents_data.incidents[i])
    THEN Returned("mock", DetailedKeys)
    ELSE Raised

\* analyze_detailed_traffic_data: always _generate_detailed_openai_analysis;
\* without an openrouter key the request goes to OpenAI
analyze_detailed_traffic_data(api_type, llm, incidents_data) ==
    IF llm = "ok"
    THEN Returned("ai", DetailedKeys)
    ELSE generate_detailed_mock_analysis(incidents_data)

\* generate_detailed_report_sections: _generate_comprehensive_report_sections
generate_detailed_report_sections(api_type, llm) ==
    IF api_type = "openrouter" /\ llm = "ok"
    THEN Returned("ai", ParsedSectionKeys)
    ELSE Returned("mock", MockSectionKeys)

FallbackInit ==
    /\ CollectorIdle
    /\ probe = NoProbe
    /\ inflight = <<>>
    /\ users = <<>> /\ groups = <<>> /\ tokens = <<>> /\ nextKey = 0
    /\ revoked = {} /\ registered = <<>>
    /\ reports = <<>> /\ incidents = <<>> /\ audit = <<>>
    /\ resp = NoResp
    /\ check = [authenticated |-> FALSE, roles |-> {}, required |-> <<>>,
                decision |-> "none"]
    /\ tasks = NoTasks

FallbackFrame ==
    UNCHANGED <<users, groups, tokens, nextKey, revoked, registered, reports,
                incidents, audit, resp, check, tasks, collectorVars, inflight>>

CitySummary ==
    \E flow_data \in FlowInputs, incidents_data \in IncidentsInputs,
       current_hour \in HourInputs, draw \in DrawInputs :
        /\ probe' = [NoProbe EXCEPT
               !.fn = "get_city_traffic_summary",
               !.args = <<flow_data, incidents_data, current_hour, draw>>,
               !.tomtom_failed = ~flow_data.present /\ ~incidents_data.present,
               !.source = IF flow_data.present THEN "tomtom" ELSE "simulated",
               !.dashboard = get_city_traffic_summary(flow_data, incidents_data,
                                                      current_hour, draw)]
        /\ FallbackFrame

AnalyzeTraffic ==
    \E api_type \in ApiTypeInputs, llm \in LlmInputs,
       traffic_data \in FlowInputs, incidents_data \in IncidentsInputs :
        LET result == analyze_traffic_data(api_type, llm, traffic_data, incidents_data)
        IN  /\ probe' = [NoProbe EXCEPT
                   !.fn = "analyze_traffic_data",
                   !.args = <<api_type, llm, traffic_data, incidents_data>>,
                   !.tomtom_failed = ~traffic_data.present /\ ~incidents_data.present,
                   !.llm = IF api_type = "mock" THEN "none" ELSE llm,
                   !.raised = result.raised, !.source = result.source,
                   !.keys = result.keys]
            /\ FallbackFrame

AnalyzeDetailed ==
    \E api_type \in ApiTypeInputs, llm \in LlmInputs, incidents_data \in IncidentsInputs :
        LET result == analyze_detailed_traffic_data(api_type, llm, incidents_data)
        IN  /\ probe' = [NoProbe EXCEPT
                   !.fn = "analyze_detailed_traffic_data",
                   !.args = <<api_type, llm, incidents_data>>,
                   !.tomtom_failed = ~incidents_data.present,
                   !.llm = llm,
                   !.raised = result.raised, !.source = result.source,
                   !.keys = result.keys]
            /\ FallbackFrame

GenerateSections ==
    \E api_type \in ApiTypeInputs, llm \in LlmInputs :
        LET result == generate_detailed_report_sections(api_type, llm)
        IN  /\ probe' = [NoProbe EXCEPT
                   !.fn = "generate_detailed_report_sections",
                   !.args = <<api_type, llm>>,
                   !.llm = IF api_type = "openrouter" THEN llm ELSE "none",
                   !.raised = result.raised, !.source = result.source,
                   !.keys = result.keys]
            /\ FallbackFrame

FallbackNext ==
    \/ CitySummary
    \/ AnalyzeTraffic
    \/ AnalyzeDetailed
    \/ GenerateSections

SpecFallback == FallbackInit /\ [][FallbackNext]_vars

\* C13: when both TomTom requests failed, get_city_traffic_summary returns a
\* dashboard with congestionLevel, avgTravelTime, liveIncidents and aiForecast
\* set; when the request to the language model raised or answered non-200,
\* analyze_traffic_data, analyze_detailed_traffic_data and
\* generate_detailed_report_sections return the mock result with their
\* analysis/recommendations or section keys and do not raise.
C13_FallbackInsteadOfRaising ==
    /\ (probe.fn = "get_city_traffic_summary" /\ probe.tomtom_failed) =>
           /\ DOMAIN probe.dashboard =
                  {"congestionLevel", "avgTravelTime", "liveIncidents", "aiForecast"}
           /\ probe.dashboard.congestionLevel \in 10..85
           /\ probe.dashboard.avgTravelTime \in 15..50
           /\ probe.dashboard.liveIncidents \in 1..8
           /\ probe.dashboard.aiForecast # ""
    /\ (probe.fn \in {"analyze_traffic_data", "analyze_detailed_traffic_data"}
            /\ probe.llm \in {"raises", "non200"}) =>
           /\ ~probe.raised
           /\ probe.source = "mock"
           /\ {"analysis", "recommendations"} \subseteq probe.keys
    /\ (probe.fn = "generate_detailed_report_sections"
            /\ probe.llm \in {"raises", "non200"}) =>
           /\ ~probe.raised
           /\ probe.source = "mock"
           /\ {"traffic_overview", "incident_analysis", "recommendations"}
                  \subseteq probe.keys

-----------------------------------------------------------------------------
(* Role assignment *)

\* the posted 'roles' is rejected: empty, not a list, or with an item that is
\* not a key of ROLE_PERMISSIONS
RolesRejected(roles) ==
    \/ ~roles.is_list
    \/ roles.items = <<>>
    \/ \E i \in 1..Len(roles.items) : roles.items[i] \notin RoleNames

-----------------------------------------------------------------------------
(* All role-affecting endpoints together, over the seeded databases *)

\* what a client may put as 'email' (present: the key is in request.data)
ProfileEmailInputs ==
    {[present |-> FALSE, email |-> <<>>],
     [present |-> TRUE, email |-> E("alice", "X.KE")]}

\* User.objects.filter(email=...).exclude(id=user.id).exists()
EmailOfOtherUser(u, email) ==
    \E v \in UserIds \ {u} : users[v].email = email

\* authentication/views.py: update_profile
update_profile(key, data) ==
    LET u == AuthUser(key)
        req == [NoResp EXCEPT !.op = "update_profile", !.key = key,
                              !.requester = u, !.email = data.email]
    IN
    IF u = Anonymous
    THEN /\ resp' = [req EXCEPT !.status = 401]
         /\ UNCHANGED <<users, groups, tokens, nextKey, revoked, registered>>
    ELSE IF data.present /\ EmailOfOtherUser(u, data.email)
    THEN /\ resp' = [req EXCEPT !.status = 400]
         /\ UNCHANGED <<users, groups, tokens, nextKey, revoked, registered>>
    ELSE /\ users' = IF data.present
                     THEN [users EXCEPT ![u].email = data.email] ELSE users
         /\ resp' = [req EXCEPT !.status = 200, !.user = u]
         /\ UNCHANGED <<groups, tokens, nextKey, revoked, registered>>

\* Google ID tokens for the addresses of the seeded users and for an address
\* whose domain Google reports in upper case
SeededGoogleTokenInputs ==
    [kind : {"missing", "invalid", "unreachable"}, email : {<<>>},
     email_verified : {FALSE}]
        \cup [kind : {"valid"},
              email : {E("user1", "example.com"), E("admin", "example.com"),
                       E("alice", "X.KE")},
              email_verified : {TRUE}]
        \cup [kind : {"valid"}, email : {E("alice", "X.KE")},
              email_verified : {FALSE}]

\* the database after `seed_roles --with-demo-users` alone: the user 'admin'
\* in group 'admin', without a token
SeedRolesInit ==
    /\ users = << [username |-> "admin", email |-> E("admin", "example.com"),
                   password |-> make_password("admin123"), is_active |-> TRUE] >>
    /\ groups = << {"admin"} >>
    /\ tokens = << NoKey >>
    /\ nextKey = 0
    /\ revoked = {}
    /\ registered = << [username |-> "", password |-> "", intact |-> FALSE] >>
    /\ reports = <<>> /\ incidents = <<>> /\ audit = <<>>
    /\ resp = NoResp
    /\ check = [authenticated |-> FALSE, roles |-> {}, required |-> <<>>,
                decision |-> "none"]
    /\ tasks = NoTasks
    /\ CollectorIdle
    /\ probe = NoProbe
    /\ inflight = <<>>

\* the seeded database, without or with the demo user of demo_rbac.py
AccessInit == SeedRolesInit \/ RbacInit

AccessRegister ==
    \E username \in {"", "alice"} :
        register_user(username, E("alice", "x.ke"), "pw1") /\ AuthFrame

AccessLogin ==
    \E username \in {"alice", "admin"}, password \in {"pw1", "admin123"} :
        login_user(username, password) /\ AuthFrame

AccessChangePassword ==
    \E key \in KeyInputs, current_password \in {"pw1", "admin123"} :
        change_password(key, current_password, "pw2") /\ AuthFrame

UpdateProfile ==
    \E key \in KeyInputs, data \in ProfileEmailInputs :
        update_profile(key, data) /\ AuthFrame

GoogleSignIn ==
    \E google_token \in SeededGoogleTokenInputs :
        google_login(google_token) /\ AuthFrame

\* requests to assign naming the target by id
AccessAssign ==
    \E key \in KeyInputs, user_id \in 1..MaxUsers,
       items \in {<<"root">>, <<"admin">>, <<"viewer", "viewer">>} :
        /\ assign(key, [user_id |-> user_id, username |-> ""],
                  [is_list |-> TRUE, items |-> items])
        /\ UNCHANGED <<collectorVars, probe, inflight, users, tokens, nextKey, revoked,
                       registered, reports, incidents, check, tasks>>

AccessNext ==
    \/ AccessRegister
    \/ AccessLogin
    \/ Logout
    \/ AccessChangePassword
    \/ UpdateProfile
    \/ GoogleSignIn
    \/ ListRoles
    \/ AccessAssign

SpecAccess == AccessInit /\ [][AccessNext]_vars

-----------------------------------------------------------------------------
(* Google sign-in over an initially empty database *)

GoogleNext ==
    \/ AccessRegister
    \/ GoogleSignIn
    \/ UpdateProfile
    \/ Logout

SpecGoogle == AuthInit /\ [][GoogleNext]_vars

\* C16: a google_login that is not answered 200 (no token, a token Google
\* rejects, an unverified address) creates no User and no Token; one whose
\* address is already the address of a user creates no User and answers with
\* that user and the one token of that user; any other creates exactly one
\* User, under a username no other user has.
C16_NoDuplicateAccount ==
    [][resp'.op = "google_login" =>
          /\ resp'.status # 200 => users' = users /\ tokens' = tokens
          /\ (/\ resp'.status = 200
              /\ \E u \in UserIds :
                     users[u].email \in {resp'.email, normalize_email(resp'.email)}) =>
                 /\ users' = users
                 /\ resp'.user \in UserIds
                 /\ users[resp'.user].email \in
                        {resp'.email, normalize_email(resp'.email)}
                 /\ resp'.token = tokens'[resp'.user]
          /\ resp'.status = 200 =>
                 /\ Len(users') <= Len(users) + 1
                 /\ \A u, v \in 1..Len(users') :
                        users'[u].username = users'[v].username => u = v]_vars

-----------------------------------------------------------------------------
(* collect_all_cities_data and the task result built from it *)

\* the collection_type argument; any value other than 'incidents' and
\* 'traffic_flow' takes the combined branch
CollectionTypeInputs == {"incidents", "traffic_flow", "combined", "weekly"}

\* how a call of collect_incident_data for a city of the table ends
IncidentOutcomes == {"nothing_found", "completed", "raises"}

\* how a call of collect_traffic_flow_data for a city of the table ends
TrafficOutcomes == {"completed", "raises"}

\* the dictionaries collect_incident_data returns
IncidentResult(city, outcome) ==
    IF outcome = "nothing_found"
    THEN [city |-> city, status |-> "completed", total_found |-> 0,
          new_records |-> 0, updated_records |-> 0]
    ELSE [city |-> city, status |-> "completed", total_found |-> 1,
          new_records |-> 1, updated_records |-> 0, errors |-> 0]

\* the dictionary collect_traffic_flow_data returns
TrafficResult(city) ==
    [city |-> city, status |-> "completed", total_points |-> 9,
     new_records |-> 9, errors |-> 0]

\* the entry of the `except Exception` branch
FailedEntry(city, text) == [city |-> city, error |-> text, status |-> "failed"]

\* an entry that drops the city whose collection raised
CityEntryOrNothing(city, entry) ==
    IF "error" \in DOMAIN entry THEN <<>> ELSE <<entry>>

\* results.append(result) and results.append({...}) of the except branch
CityEntry(city, entry) == <<entry>>

\* the body of the loop of collect_all_cities_data for one city
CollectCity(collection_type, city, incident, traffic) ==
    IF collection_type = "incidents"
    THEN IF incident = "raises"
         THEN FailedEntry(city, "incidents failed")
         ELSE IncidentResult(city, incident)
    ELSE IF collection_type = "traffic_flow"
    THEN IF traffic = "raises"
         THEN FailedEntry(city, "traffic flow failed")
         ELSE TrafficResult(city)
    ELSE IF incident = "raises"
    THEN FailedEntry(city, "incidents failed")
    ELSE IF traffic = "raises"
    THEN FailedEntry(city, "traffic flow failed")
    ELSE [city |-> city,
          incident_collection |-> IncidentResult(city, incident),
          traffic_collection |-> TrafficResult(city)]

\* the cities of the results with (failed) or without the key 'error', in the
\* order of the results
RECURSIVE CitiesOf(_, _)
CitiesOf(results, failed) ==
    IF results = <<>> THEN <<>>
    ELSE (IF ("error" \in DOMAIN Head(results)) = failed
          THEN <<Head(results).city>> ELSE <<>>)
             \o CitiesOf(Tail(results), failed)

\* the value collect_all_cities_traffic_data returns
TaskResult(results) ==
    [status |-> "completed",
     successful_cities |-> CitiesOf(results, FALSE),
     failed_cities |-> CitiesOf(results, TRUE),
     total_cities |-> Len(results),
     results |-> results]

SweepInit ==
    /\ live = <<>> /\ logs = <<>> /\ flows = <<>> /\ calls = <<>>
    /\ sweep \in [collection_type : CollectionTypeInputs, at : {1},
                   results : {<<>>}, task : {<<>>}]
    /\ probe = NoProbe
    /\ inflight = <<>>
    /\ users = <<>> /\ groups = <<>> /\ tokens = <<>> /\ nextKey = 0
    /\ revoked = {} /\ registered = <<>>
    /\ reports = <<>> /\ incidents = <<>> /\ audit = <<>>
    /\ resp = NoResp
    /\ check = [authenticated |-> FALSE, roles |-> {}, required |-> <<>>,
                decision |-> "none"]
    /\ tasks = NoTasks

SweepFrame ==
    UNCHANGED <<users, groups, tokens, nextKey, revoked, registered, reports,
                incidents, audit, resp, check, tasks, live, logs, flows, calls,
                probe, inflight>>

\* one turn of the loop over KENYAN_CITIES.items()
SweepCollectsCity ==
    \E incident \in IncidentOutcomes, traffic \in TrafficOutcomes :
        /\ sweep.at \in 1..Len(KENYAN_CITIES)
        /\ sweep' = [sweep EXCEPT
               !.results = @ \o CityEntry(KENYAN_CITIES[sweep.at],
                                 CollectCity(sweep.collection_type,
                                             KENYAN_CITIES[sweep.at],
                                             incident, traffic)),
               !.at = @ + 1]
        /\ SweepFrame

\* `return results` and the rest of collect_all_cities_traffic_data
SweepReturns ==
    /\ sweep.at = Len(KENYAN_CITIES) + 1
    /\ sweep.task = <<>>
    /\ sweep' = [sweep EXCEPT !.task = TaskResult(sweep.results)]
    /\ SweepFrame

SweepNext == SweepCollectsCity \/ SweepReturns

SpecSweep == SweepInit /\ [][SweepNext]_vars

\* C18: once collect_all_cities_data has returned, its results hold one entry
\* per city of KENYAN_CITIES in the order of the table, whatever the
\* collection_type and whichever cities raised; an entry with the key 'error'
\* has exactly the keys city, error and status with status 'failed'; in the
\* task result successful_cities and failed_cities share no city, together
\* hold every city of the table, and total_cities is the number of cities.
C18_PerCityIsolation ==
    sweep.task # <<>> =>
        LET results == sweep.task.results
            ok == Range(sweep.task.successful_cities)
            failed == Range(sweep.task.failed_cities)
        IN
        /\ Len(results) = Len(KENYAN_CITIES)
        /\ \A i \in 1..Len(results) :
               /\ results[i].city = KENYAN_CITIES[i]
               /\ "error" \in DOMAIN results[i] =>
                      /\ DOMAIN results[i] = {"city", "error", "status"}
                      /\ results[i].status = "failed"
        /\ ok \cap failed = {}
        /\ ok \cup failed = Range(KENYAN_CITIES)
        /\ Len(sweep.task.successful_cities) + Len(sweep.task.failed_cities)
              = Len(KENYAN_CITIES)
        /\ sweep.task.total_cities = Len(KENYAN_CITIES)

\* a combined collection in which the first city raised and a later city was
\* collected all the same
C18_Witness ==
    /\ sweep.task # <<>>
    /\ sweep.collection_type = "combined"
    /\ sweep.task.failed_cities # <<>>
    /\ Head(sweep.task.failed_cities) = "nairobi"
    /\ "eldoret" \in Range(sweep.task.successful_cities)

-----------------------------------------------------------------------------
(* No privilege escalation *)

\* the role set of user u differs after the step, a user that does not exist
\* yet counting as one without roles
RolesChanged(u) ==
    IF u \in UserIds THEN groups'[u] # groups[u] ELSE groups'[u] # {}

\* the requester of the request handled by the step is in group 'admin' when
\* the request arrives
RequesterIsAdmin ==
    /\ resp'.requester \in UserIds
    /\ "admin" \in groups[resp'.requester]

\* C19: in every step of register_user, login_user, logout_user,
\* update_profile, change_password, google_login, list_roles and assign, a
\* user's role set changes only to {viewer} for the user a 201 register_user
\* created or for the user a 200 google_login signed in, who had no role, or
\* in an assign answered 200 whose requester is in group 'admin'; assign and
\* list_roles answer 403 to an authenticated requester who is not in 'admin',
\* deny a request without a valid token, and change no role in either case.
C19_NoPrivilegeEscalation ==
    [][/\ \A u \in 1..Len(groups') :
             RolesChanged(u) =>
                 \/ /\ resp'.op = "register" /\ resp'.status = 201
                    /\ u = resp'.user /\ u \notin UserIds
                    /\ groups'[u] = {"viewer"}
                 \/ /\ resp'.op = "google_login" /\ resp'.status = 200
                    /\ u = resp'.user
                    /\ u \in UserIds => groups[u] = {}
                    /\ groups'[u] = {"viewer"}
                 \/ /\ resp'.op = "assign" /\ resp'.status = 200
                    /\ u = resp'.user
                    /\ RequesterIsAdmin
       /\ (resp'.op \in {"assign", "list_roles"} /\ ~RequesterIsAdmin) =>
             /\ resp'.requester # Anonymous => resp'.status = 403
             /\ resp'.status \in {401, 403}
             /\ groups' = groups]_vars

\* a viewer asked assign to make itself an administrator and was answered
\* 403, and list_roles answers 403 as well, while the administrator had
\* changed a role before
C19_Witness ==
    /\ resp.op = "assign" /\ resp.status = 403
    /\ resp.requester \in UserIds
    /\ groups[resp.requester] = {"viewer"}
    /\ audit # <<>>

-----------------------------------------------------------------------------
(* assign statement by statement, with other requests in between *)

\* assign requests handled at the same time
MaxAssigns == 2

\* the groups of the seeded users once the demo user has the default role
RaceGroups == << {"viewer"}, {"admin"} >>

\* the seeded database after the demo user got the role 'viewer' and the
\* administrator logged in
RaceInit ==
    /\ users = << [username |-> "user1", email |-> E("user1", "example.com"),
                   password |-> make_password("testpass123"), is_active |-> TRUE],
                  [username |-> "admin", email |-> E("admin", "example.com"),
                   password |-> make_password("admin123"), is_active |-> TRUE] >>
    /\ groups = RaceGroups
    /\ tokens = << 1, 2 >>
    /\ nextKey = 2
    /\ revoked = {}
    /\ registered = << [username |-> "", password |-> "", intact |-> FALSE],
                       [username |-> "", password |-> "", intact |-> FALSE] >>
    /\ reports = <<>> /\ incidents = <<>> /\ audit = <<>>
    /\ resp = NoResp
    /\ check = [authenticated |-> FALSE, roles |-> {}, required |-> <<>>,
                decision |-> "none"]
    /\ tasks = NoTasks
    /\ CollectorIdle
    /\ probe = NoProbe
    /\ inflight = <<>>

RaceFrame ==
    UNCHANGED <<collectorVars, probe, users, tokens, nextKey, revoked, registered,
                reports, incidents, tasks>>

\* the lists of roles the concurrent requests ask for
RaceRolesInputs == {<<"admin">>, <<"viewer">>, <<"traffic_analyst", "incident_manager">>}

\* lines 23-47 of assign: a request that passes the permission check, the
\* validation and the lookup reads prev_roles and goes on; any other is
\* answered at once
AssignArrives ==
    \E key \in KeyInputs, user_id \in UserIds, items \in RaceRolesInputs :
        LET u == AuthUser(key)
            target == [user_id |-> user_id, username |-> ""]
            roles == [is_list |-> TRUE, items |-> items]
        IN
        /\ Len(inflight) < MaxAssigns
        /\ IF has_permission(u # Anonymous, RequesterRoles(u),
                             AdminRoleRequired("assign"))
           THEN /\ inflight' = Append(inflight,
                                  [requester |-> u, user |-> LocateUser(target),
                                   roles |-> items, prev_roles |-> groups[user_id],
                                   pc |-> "clear", at |-> 1])
                /\ UNCHANGED <<groups, audit, resp, check>>
           ELSE /\ assign(key, target, roles)
                /\ UNCHANGED <<inflight, check>>
        /\ RaceFrame

\* line 51: user.groups.clear()
AssignClears ==
    \E i \in 1..Len(inflight) :
        /\ inflight[i].pc = "clear"
        /\ groups' = [groups EXCEPT ![inflight[i].user] = {}]
        /\ inflight' = [inflight EXCEPT ![i].pc = "add"]
        /\ UNCHANGED <<audit, resp, check>>
        /\ RaceFrame

\* lines 52-54: one turn of the loop, user.groups.add(group)
AssignAdds ==
    \E i \in 1..Len(inflight) :
        LET a == inflight[i] IN
        /\ a.pc = "add"
        /\ groups' = [groups EXCEPT ![a.user] = @ \cup {a.roles[a.at]}]
        /\ inflight' = [inflight EXCEPT
               ![i].pc = IF a.at = Len(a.roles) THEN "audit" ELSE "add",
               ![i].at = a.at + 1]
        /\ UNCHANGED <<audit, resp, check>>
        /\ RaceFrame

\* lines 57-67: the audit row and the response
AssignResponds ==
    \E i \in 1..Len(inflight) :
        LET a == inflight[i] IN
        /\ a.pc = "audit"
        /\ audit' = Append(audit, [user |-> a.requester, action |-> "role_change",
                                   target_user_id |-> a.user,
                                   from |-> a.prev_roles, to |-> a.roles])
        /\ resp' = [NoResp EXCEPT !.op = "assign", !.requester = a.requester,
                                  !.status = 200, !.user = a.user]
        /\ inflight' = [inflight EXCEPT ![i].pc = "done"]
        /\ UNCHANGED <<groups, check>>
        /\ RaceFrame

\* another request of a user at any moment: RolePermission.has_permission
\* reads the requester's groups and decides
RoleCheck ==
    \E key \in 1..nextKey :
        /\ list_roles(key)
        /\ check' = [authenticated |-> TRUE,
                     roles |-> RequesterRoles(AuthUser(key)),
                     required |-> AdminRoleRequired("list_roles"),
                     decision |-> IF has_permission(TRUE, RequesterRoles(AuthUser(key)),
                                                    AdminRoleRequired("list_roles"))
                                  THEN "allow" ELSE "deny"]
        /\ UNCHANGED <<groups, audit, inflight>>
        /\ RaceFrame

RaceNext ==
    \/ AssignArrives
    \/ AssignClears
    \/ AssignAdds
    \/ AssignResponds
    \/ RoleCheck

SpecRace == RaceInit /\ [][RaceNext]_vars

\* the role sets user u has before any assign or is asked to have by one
CompleteRoleSets(u) ==
    {RaceGroups[u]}
        \cup {Range(inflight[i].roles) :
                 i \in {j \in 1..Len(inflight) : inflight[j].user = u}}

\* C20: a permission check made for a user while assign requests on that user
\* are under way reads either the role set the user had or the complete set
\* one of the requests asks for, never a partial or empty one; and once all
\* assign requests on a user have answered, the user's roles are the set one
\* of them asked for.
C20_AssignAtomic ==
    /\ (resp.op = "list_roles" /\ resp.requester \in UserIds) =>
           check.roles \in CompleteRoleSets(resp.requester)
    /\ \A u \in UserIds :
           (/\ \E i \in 1..Len(inflight) : inflight[i].user = u
            /\ \A i \in 1..Len(inflight) :
                   inflight[i].user = u => inflight[i].pc = "done") =>
               \E i \in 1..Len(inflight) :
                   inflight[i].user = u /\ groups[u] = Range(inflight[i].roles)

-----------------------------------------------------------------------------
(* change_password statement by statement, with logins and logouts in between *)

\* change_password requests handled at the same time
MaxChanges == 2

\* lines 247-264 of change_password: the request is authenticated and checked
\* against the user row loaded with the token; one that passes goes on, any
\* other is answered at once
ChangeArrives ==
    \E key \in KeyInputs, current_password \in {"testpass123", "pw2"},
       new_password \in {"pw2", "pw3"} :
        LET u == AuthUser(key) IN
        /\ Len(inflight) < MaxChanges
        /\ IF u # Anonymous /\ check_password(u, current_password)
           THEN /\ inflight' = Append(inflight,
                                  [user |-> u, key |-> key,
                                   new_password |-> new_password, pc |-> "save",
                                   saved |-> FALSE, deleted |-> FALSE,
                                   created |-> FALSE, status |-> 0])
                /\ UNCHANGED <<users, groups, tokens, nextKey, revoked,
                               registered, resp>>
           ELSE /\ change_password(key, current_password, new_password)
                /\ UNCHANGED inflight
        /\ UNCHANGED <<collectorVars, probe, reports, incidents, audit, check, tasks>>

ChangeFrame ==
    UNCHANGED <<collectorVars, probe, groups, reports, incidents, audit, check,
                tasks>>

\* lines 267-268: user.set_password(new_password); user.save()
ChangeSaves ==
    \E i \in 1..Len(inflight) :
        LET c == inflight[i] IN
        /\ c.pc = "save"
        /\ users' = [users EXCEPT ![c.user].password = make_password(c.new_password)]
        /\ registered' = [registered EXCEPT ![c.user].intact = FALSE]
        /\ inflight' = [inflight EXCEPT ![i].pc = "delete", ![i].saved = TRUE]
        /\ UNCHANGED <<tokens, nextKey, revoked, resp>>
        /\ ChangeFrame

\* line 271: user.auth_token.delete(), a DELETE of the row with the key the
\* request was authenticated with; it deletes nothing when that row is gone
ChangeDeletes ==
    \E i \in 1..Len(inflight) :
        LET c == inflight[i]
            there == tokens[c.user] = c.key
        IN
        /\ c.pc = "delete"
        /\ tokens' = IF there THEN [tokens EXCEPT ![c.user] = NoKey] ELSE tokens
        /\ revoked' = IF there THEN revoked \cup {c.key} ELSE revoked
        /\ inflight' = [inflight EXCEPT ![i].pc = "create", ![i].deleted = there]
        /\ UNCHANGED <<users, nextKey, registered, resp>>
        /\ ChangeFrame

\* the OneToOneField of Token.user: an INSERT for a user who has a token row
\* raises IntegrityError
CreateAccepted(u) == tokens[u] = NoKey

\* lines 272-283: Token.objects.create(user=user) and the response, or the
\* `except Exception` branch when the insert raises
ChangeCreates ==
    \E i \in 1..Len(inflight) :
        LET c == inflight[i]
            req == [NoResp EXCEPT !.op = "change_password", !.key = c.key,
                                  !.requester = c.user,
                                  !.new_password = c.new_password]
        IN
        /\ c.pc = "create"
        /\ IF CreateAccepted(c.user)
           THEN /\ nextKey < MaxKeys
                /\ tokens' = [tokens EXCEPT ![c.user] = NewKey]
                /\ nextKey' = NewKey
                /\ resp' = [req EXCEPT !.status = 200, !.token = NewKey]
                /\ inflight' = [inflight EXCEPT ![i].pc = "done",
                                                ![i].created = TRUE,
                                                ![i].status = 200]
           ELSE /\ resp' = [req EXCEPT !.status = 500]
                /\ inflight' = [inflight EXCEPT ![i].pc = "done",
                                                ![i].status = 500]
                /\ UNCHANGED <<tokens, nextKey>>
        /\ UNCHANGED <<users, revoked, registered>>
        /\ ChangeFrame

\* login_user of the demo user with the old or a new password
ChangeLogin ==
    \E password \in {"testpass123", "pw2"} :
        login_user("user1", password) /\ AuthFrame

ChangeNext ==
    \/ ChangeArrives
    \/ ChangeSaves
    \/ ChangeDeletes
    \/ ChangeCreates
    \/ ChangeLogin
    \/ Logout

SpecChange == RbacInit /\ [][ChangeNext]_vars

\* C21: a change_password request that passed its checks and answered with
\* an error has written neither the password nor a token row, and one that
\* answered 200 has written the password and created the new token.
C21_ChangePasswordAllOrNothing ==
    \A i \in 1..Len(inflight) :
        inflight[i].pc = "done" =>
            /\ inflight[i].status >= 400 =>
                   /\ ~inflight[i].saved
                   /\ ~inflight[i].deleted
                   /\ ~inflight[i].created
            /\ inflight[i].status = 200 =>
                   /\ inflight[i].saved
                   /\ inflight[i].created

-----------------------------------------------------------------------------
(* Running a collection again: the same feed twice, and a retried task *)

\* num_points of _generate_sampling_points
num_points == 25

\* int(math.sqrt(n))
Isqrt(n) == CHOOSE k \in 0..n : k * k <= n /\ n < (k + 1) * (k + 1)

grid_size == Isqrt(num_points - 1)

\* _generate_sampling_points: the center, then the grid; a point is named by
\* twice its offset from the center in grid steps, (i - grid_size/2) doubled
SamplingPoints ==
    << <<0, 0>> >> \o
    [k \in 1..(grid_size * grid_size) |->
        << 2 * ((k - 1) \div grid_size) - grid_size,
           2 * ((k - 1) % grid_size) - grid_size >>]

\* for which sampling points get_traffic_flow returns data
FlowFeedInputs == {"all", "center", "none"}

HasFlowData(flow_feed, point) ==
    \/ flow_feed = "all"
    \/ flow_feed = "center" /\ point = <<0, 0>>

\* the loop of collect_traffic_flow_data: TrafficFlowData.objects.create for
\* every point with data; `by` notes the task that ran the collection
RECURSIVE FlowRows(_, _, _, _)
FlowRows(points, flow_feed, city, by) ==
    IF points = <<>> THEN <<>>
    ELSE (IF HasFlowData(flow_feed, Head(points))
          THEN << [point |-> Head(points), city |-> city, by |-> by] >>
          ELSE <<>>)
         \o FlowRows(Tail(points), flow_feed, city, by)

\* the loop of collect_incident_data run to its end over the rows given:
\* the rows and the counters it leaves
RECURSIVE ProcessFeed(_, _, _)
ProcessFeed(run, feed, city) ==
    IF feed = <<>> THEN run
    ELSE LET id == Head(feed)
             stored == {i \in 1..Len(run.rows) : run.rows[i].tomtom_incident_id = id}
         IN
         IF id = NoIncidentId
         THEN ProcessFeed([run EXCEPT !.errors = @ + 1], Tail(feed), city)
         ELSE IF stored = {}
         THEN ProcessFeed([run EXCEPT
                              !.rows = Append(@, [tomtom_incident_id |-> id,
                                                  city |-> CityName(city),
                                                  saves |-> 1]),
                              !.new_records = @ + 1],
                          Tail(feed), city)
         ELSE ProcessFeed([run EXCEPT
                              !.rows = [i \in 1..Len(run.rows) |->
                                           IF i \in stored
                                           THEN [run.rows[i] EXCEPT
                                                    !.city = CityName(city),
                                                    !.saves = @ + 1]
                                           ELSE run.rows[i]],
                              !.updated_records = @ + 1],
                          Tail(feed), city)

StartRun(rows) ==
    [rows |-> rows, new_records |-> 0, updated_records |-> 0, errors |-> 0]

\* the stored incidents, without the bookkeeping of how often each was saved
StoredIncidents(rows) ==
    {<<rows[i].tomtom_incident_id, rows[i].city>> : i \in 1..Len(rows)}

RerunFeedInputs ==
    {[outcome |-> "raises", incidents |-> <<>>],
     [outcome |-> "incidents", incidents |-> <<"TT-1">>],
     [outcome |-> "incidents", incidents |-> <<"TT-2", "TT-1", "TT-2">>],
     [outcome |-> "incidents", incidents |-> <<NoIncidentId, "TT-1">>]}

\* the log row collect_incident_data leaves for this answer of the feed
IncidentLog(city, fetched, run) ==
    IF fetched.outcome = "raises"
    THEN mark_failed(NewLog("incidents", CityName(city)), "error")
    ELSE mark_completed([NewLog("incidents", CityName(city)) EXCEPT
                            !.new_records_created = run.new_records,
                            !.existing_records_updated = run.updated_records,
                            !.errors_encountered = run.errors])

RerunFrame ==
    UNCHANGED <<users, groups, tokens, nextKey, revoked, registered, reports,
                incidents, audit, resp, check, probe, sweep, inflight>>

\* a call of collect_incident_data for Nairobi, from its first line to its
\* return or raise
CollectIncidentsAgain ==
    \E fetched \in RerunFeedInputs :
        LET run == ProcessFeed(StartRun(live), fetched.incidents, "nairobi") IN
        /\ Len(calls) < MaxCalls
        /\ live' = run.rows
        /\ logs' = Append(logs, IncidentLog("nairobi", fetched, run))
        /\ calls' = Append(calls,
               [fn |-> "incidents", city |-> "nairobi",
                pc |-> IF fetched.outcome = "raises" THEN "raised" ELSE "returned",
                feed |-> fetched.incidents,
                new_records |-> run.new_records,
                updated_records |-> run.updated_records,
                errors |-> run.errors,
                stored_before |-> StoredIncidents(live),
                stored_after |-> StoredIncidents(run.rows)])
        /\ UNCHANGED <<flows, tasks>>
        /\ RerunFrame

\* the broker receives collect_city_traffic_data('nairobi', 'combined')
SubmitCityTask ==
    /\ Len(tasks) < MaxTasks
    /\ tasks' = Append(tasks, NewTask("collect_city_traffic_data"))
    /\ UNCHANGED <<live, logs, flows, calls>>
    /\ RerunFrame

\* the attempts the workers may make in all
MaxAttempts == 2

AttemptsMade ==
    Cardinality({a \in (1..Len(tasks)) \X (1..(max_retries + 1)) :
                    a[2] <= tasks[a[1]].runs})

\* a worker runs collect_city_traffic_data in its combined branch:
\* collect_incident_data, then collect_traffic_flow_data, whose only raise
\* after its log is created comes after the loop, from the save of the log;
\* any raise ends in self.retry
CityTaskRuns ==
    \E t \in 1..Len(tasks), fetched \in RerunFeedInputs,
       flow_feed \in FlowFeedInputs, log_save_raises \in BOOLEAN :
        LET run == ProcessFeed(StartRun(live), fetched.incidents, "nairobi")
            rows == FlowRows(SamplingPoints, flow_feed, CityName("nairobi"), t)
            flow_log == [NewLog("traffic_flow", CityName("nairobi")) EXCEPT
                            !.new_records_created = Len(rows)]
        IN
        /\ tasks[t].state = "queued"
        /\ AttemptsMade < MaxAttempts
        /\ IF fetched.outcome = "raises"
           THEN /\ logs' = Append(logs, IncidentLog("nairobi", fetched, run))
                /\ tasks' = [tasks EXCEPT ![t] = Retry(tasks[t])]
                /\ UNCHANGED <<live, flows>>
           ELSE /\ live' = run.rows
                /\ flows' = flows \o rows
                /\ logs' = logs \o
                       << IncidentLog("nairobi", fetched, run),
                          IF log_save_raises
                          THEN mark_failed(flow_log, "error")
                          ELSE mark_completed(flow_log) >>
                /\ tasks' = [tasks EXCEPT ![t] =
                       IF log_save_raises THEN Retry(tasks[t])
                       ELSE [tasks[t] EXCEPT !.state = "succeeded",
                                             !.runs = @ + 1,
                                             !.last = "returned"]]
        /\ UNCHANGED calls
        /\ RerunFrame

RerunNext ==
    \/ CollectIncidentsAgain
    \/ SubmitCityTask
    \/ CityTaskRuns
    \/ CountdownElapses

SpecRerun == CollectorInit /\ [][RerunNext]_vars

\* how often an element occurs in a sequence
Occurrences(seq, x) == Cardinality({i \in 1..Len(seq) : seq[i] = x})

\* C22: when collect_incident_data has run twice in a row for the same city
\* on the same feed, the second run leaves the stored incidents as the first
\* left them, reports new_records = 0 and counts every valid incident as
\* updated; and a collect_city_traffic_data task in combined mode that had a
\* failed attempt has stored, for every sampling point, no more
\* TrafficFlowData rows than one successful run stores.
C22_RerunIdempotent ==
    /\ \A j \in 2..Len(calls) :
           (/\ calls[j].pc = "returned" /\ calls[j - 1].pc = "returned"
            /\ calls[j].feed = calls[j - 1].feed
            /\ calls[j].stored_before = calls[j - 1].stored_after) =>
               /\ calls[j].stored_after = calls[j - 1].stored_after
               /\ calls[j].new_records = 0
               /\ calls[j].updated_records =
                      Cardinality({k \in 1..Len(calls[j].feed) :
                                      calls[j].feed[k] # NoIncidentId})
    /\ \A t \in 1..Len(tasks) :
           tasks[t].runs >= 2 =>
               \A p \in Range(SamplingPoints) :
                   Cardinality({r \in 1..Len(flows) :
                                   flows[r].by = t /\ flows[r].point = p})
                       <= Occurrences(SamplingPoints, p)

====
